---- MODULE Spec2Model ----
(***************************************************************************)
(* Model of the ingestion pipeline of the AI Data Agent backend:           *)
(*   - upload_file / delete_file (backend/main.py) over the metadata       *)
(*     tables and the physical per-sheet tables,                           *)
(*   - create_dynamic_table_from_schema / insert_dataframe_to_table with   *)
(*     their lock-retry loops (backend/app/utils/database.py),             *)
(*   - the query gate _sanitize_sql / execute_sql (database.py),           *)
(*   - _build_column_mappings (backend/app/services/excel_processor.py).   *)
(* Texts (SQL, identifiers) are TLA+ strings, i.e. sequences of            *)
(* characters, and are processed character by character.                   *)
(***************************************************************************)
EXTENDS Integers, Sequences, FiniteSets, TLC

VARIABLES
    uploaded_files,   \* ids of the committed rows of table uploaded_files
    file_sheets,      \* committed FileSheet rows: [file_id, sheet_name, table_name]
    tables,           \* physical storage: table name -> sequence of rows
    pc,               \* position of the running upload_file handler
    uploaded_file,    \* the flushed, uncommitted UploadedFile of the running upload
    processed_sheets, \* processed_payload["processed_sheets"] of the running upload
    index,            \* loop index of upload_file over processed_sheets
    sheet_models,     \* FileSheet objects collected by the running upload
    call,             \* the current / latest materializer call and its attempts
    response,         \* the latest HTTP response of a handler
    uploadSeq,        \* number of uploads started so far
    gate,             \* the latest _sanitize_sql / execute_sql call
    executed,         \* statements handed to the storage engine by execute_sql
    colcall,          \* the latest _build_column_mappings call
    fcall             \* the latest call of a function of the cleaning / typing
                      \* layer: [fn, arg, result]

uploadVars == <<uploaded_files, file_sheets, tables, pc, uploaded_file,
                processed_sheets, index, sheet_models, call, response, uploadSeq>>
gateVars == <<gate, executed>>
colVars == <<colcall>>
callVars == <<fcall>>
vars == <<uploadVars, gateVars, colVars, callVars>>

(***************************************************************************)
(* Bounds of the model.                                                    *)
(***************************************************************************)
MaxUploads == 2
MaxSheets == 2
MaxTails == 2
MaxColumns == 3

(***************************************************************************)
(* Generic helpers on texts.                                               *)
(***************************************************************************)
Char(s, i) == SubSeq(s, i, i)

Digits == <<"0", "1", "2", "3", "4", "5", "6", "7", "8", "9">>

\* str(n) / f"{n}" of a natural number
RECURSIVE Str(_)
Str(n) == IF n < 10 THEN Digits[n + 1] ELSE Str(n \div 10) \o Digits[(n % 10) + 1]

LowerLetters == "abcdefghijklmnopqrstuvwxyz"

UpperLetters == "ABCDEFGHIJKLMNOPQRSTUVWXYZ"

DigitChars == "0123456789"

\* Position of character c in alphabet, 0 when absent.
IndexIn(c, alphabet) ==
    IF \E i \in 1..Len(alphabet) : Char(alphabet, i) = c
    THEN CHOOSE i \in 1..Len(alphabet) : Char(alphabet, i) = c
    ELSE 0

UpperOf == [c \in {Char(LowerLetters, i) : i \in 1..Len(LowerLetters)} |->
                Char(UpperLetters, IndexIn(c, LowerLetters))]

LowerOf == [c \in {Char(UpperLetters, i) : i \in 1..Len(UpperLetters)} |->
                Char(LowerLetters, IndexIn(c, UpperLetters))]

CharsOf(alphabet) == {Char(alphabet, i) : i \in 1..Len(alphabet)}

WordChars ==
    CharsOf(LowerLetters) \cup CharsOf(UpperLetters) \cup CharsOf(DigitChars) \cup {"_"}

\* str.upper() on ASCII text
UpperChar(c) == IF c \in DOMAIN UpperOf THEN UpperOf[c] ELSE c

\* s[lo..hi] upper-cased, by halves
RECURSIVE UpperRange(_, _, _)
UpperRange(s, lo, hi) ==
    IF lo > hi THEN ""
    ELSE IF lo = hi THEN UpperChar(Char(s, lo))
    ELSE UpperRange(s, lo, (lo + hi) \div 2) \o UpperRange(s, (lo + hi) \div 2 + 1, hi)

Upper(s) == UpperRange(s, 1, Len(s))

\* str.lower() on ASCII text
LowerChar(c) == IF c \in DOMAIN LowerOf THEN LowerOf[c] ELSE c

\* s[lo..hi] lower-cased, by halves
RECURSIVE LowerRange(_, _, _)
LowerRange(s, lo, hi) ==
    IF lo > hi THEN ""
    ELSE IF lo = hi THEN LowerChar(Char(s, lo))
    ELSE LowerRange(s, lo, (lo + hi) \div 2) \o LowerRange(s, (lo + hi) \div 2 + 1, hi)

Lower(s) == LowerRange(s, 1, Len(s))

\* whitespace of str.strip() and of the regex class \s
IsSpace(c) == c \in {" ", "\t", "\n", "\r"}

RECURSIVE LStrip(_)
LStrip(s) ==
    IF s # "" /\ IsSpace(Char(s, 1)) THEN LStrip(SubSeq(s, 2, Len(s))) ELSE s

RECURSIVE RStrip(_)
RStrip(s) ==
    IF s # "" /\ IsSpace(Char(s, Len(s))) THEN RStrip(SubSeq(s, 1, Len(s) - 1)) ELSE s

\* str.strip()
Strip(s) == RStrip(LStrip(s))

\* str.rstrip(chars) for a one-character set
RECURSIVE RStripChar(_, _)
RStripChar(s, c) ==
    IF s # "" /\ Char(s, Len(s)) = c THEN RStripChar(SubSeq(s, 1, Len(s) - 1), c) ELSE s

\* str.find(tok) + 1: the first position of tok in s from position from on,
\* 0 when tok does not occur
RECURSIVE FindFrom(_, _, _)
FindFrom(s, tok, from) ==
    IF from + Len(tok) - 1 > Len(s) THEN 0
    ELSE IF SubSeq(s, from, from + Len(tok) - 1) = tok THEN from
    ELSE FindFrom(s, tok, from + 1)

Find(s, tok) == FindFrom(s, tok, 1)

\* "tok in s"
Contains(s, tok) == Find(s, tok) # 0

\* s.split(tok)[0]
SplitFirst(s, tok) ==
    LET i == Find(s, tok) IN IF i = 0 THEN s ELSE SubSeq(s, 1, i - 1)

\* s.replace(old, new): every non-overlapping occurrence, left to right
RECURSIVE Replace(_, _, _)
Replace(s, old, new) ==
    LET i == Find(s, old)
    IN  IF i = 0 THEN s
        ELSE SubSeq(s, 1, i - 1) \o new \o Replace(SubSeq(s, i + Len(old), Len(s)), old, new)

\* text.startswith(prefix)
StartsWith(text, prefix) ==
    Len(text) >= Len(prefix) /\ SubSeq(text, 1, Len(prefix)) = prefix

\* the printable ASCII characters in code-point order, without the double
\* quote, the backslash and the backquote
Ascii ==
    " !#$%&'()*+,-./0123456789:;<=>?@ABCDEFGHIJKLMNOPQRSTUVWXYZ[]^_abcdefghijklmnopqrstuvwxyz{|}~"

\* a < b for two texts, by code points
RECURSIVE TextLess(_, _)
TextLess(a, b) ==
    IF b = "" THEN FALSE
    ELSE IF a = "" THEN TRUE
    ELSE IF Char(a, 1) = Char(b, 1)
         THEN TextLess(SubSeq(a, 2, Len(a)), SubSeq(b, 2, Len(b)))
    ELSE IndexIn(Char(a, 1), Ascii) < IndexIn(Char(b, 1), Ascii)

\* the regex class \w on ASCII text
IsWordChar(c) == c \in WordChars

Max(S) == CHOOSE m \in S : \A n \in S : n <= m

Pow2(n) == IF n = 0 THEN 1 ELSE IF n = 1 THEN 2 ELSE 4

(***************************************************************************)
(* database.py: retry budget of the materializer.                          *)
(***************************************************************************)
max_retries == 3

\* Storage answers to one execution of a statement: success, an exception
\* whose message contains "database is locked", any other exception.
StorageResponses == {"ok", "locked", "error"}

IsLocked(resp) == resp = "locked"

NoCall == [fn |-> "none", resps |-> <<>>, sleeps |-> <<>>, outcome |-> "none"]

\* The call record at the start of an attempt: a new call when the previous
\* one has ended.
CallAt(fn) ==
    IF call.fn = fn /\ call.outcome = "running"
    THEN call
    ELSE [fn |-> fn, resps |-> <<>>, sleeps |-> <<>>, outcome |-> "running"]

\* Variants of RetryAllowed: the budget test off by one; a retry after any
\* failure.
RetryAllowedOffByOne(resp, attempt) == IsLocked(resp) /\ attempt < max_retries

RetryAllowedAnyFailure(resp, attempt) == attempt < max_retries - 1

\* except-clause of both retry loops (database.py 258-264, 284-290):
\* sleep and continue only for a locked failure before the last attempt.
RetryAllowed(resp, attempt) == IsLocked(resp) /\ attempt < max_retries - 1

\* One iteration of "for attempt in range(max_retries)" for storage answer
\* resp; the iteration number is the number of answers seen so far.
Attempt(c, resp) ==
    LET attempt == Len(c.resps)
        seen == Append(c.resps, resp)
    IN  IF resp = "ok"
        THEN [c EXCEPT !.resps = seen, !.outcome = "returned"]
        ELSE IF RetryAllowed(resp, attempt)
        THEN [c EXCEPT !.resps = seen,
                       !.sleeps = Append(c.sleeps, Pow2(attempt))]
        ELSE [c EXCEPT !.resps = seen, !.outcome = "raised"]

(***************************************************************************)
(* main.py: upload_file and delete_file.                                   *)
(***************************************************************************)
BaseTableNames == {"orders"}

\* Row counts of the sanitized dataframes of the model's sheets.
RowCounts == {1, 2}

\* main.py 519
unique_table_name(file_id, idx, base_table_name) ==
    "file_" \o Str(file_id) \o "_sheet_" \o Str(idx) \o "_" \o base_table_name

\* uploaded_files.id is an INTEGER PRIMARY KEY without AUTOINCREMENT
\* (models/base.py 15): the engine assigns the largest committed id plus one.
NextFileId == IF uploaded_files = {} THEN 1 ELSE Max(uploaded_files) + 1

\* A processed sheet: its name, its schema's base_table_name and the number
\* of rows of its sanitized dataframe.
Sheets == [base_table_name : BaseTableNames, nrows : RowCounts]

\* A sheet of an uploaded workbook: what its processing yields, and whether
\* its processing raises (in clean, in the schema inference or in the
\* profiler).
RawSheets == [base_table_name : BaseTableNames, nrows : RowCounts, raises : BOOLEAN]

\* Workbooks of up to MaxSheets sheets; the sheets of one workbook have the
\* same number of rows.
Workbooks ==
    UNION {{wb \in [1..n -> RawSheets] : \A i \in 1..n : wb[i].nrows = wb[1].nrows} :
              n \in 1..MaxSheets}

\* excel_processor.py 51-103: the loop from sheet i on; raised is the sheet
\* whose processing raised, 0 when the loop ended
RECURSIVE ProcessSheetsFrom(_, _, _)
ProcessSheetsFrom(excel_data, i, processed) ==
    IF i > Len(excel_data) THEN [raised |-> 0, processed_sheets |-> processed]
    ELSE IF excel_data[i].raises THEN [raised |-> i, processed_sheets |-> processed]
    ELSE ProcessSheetsFrom(excel_data, i + 1,
                           Append(processed,
                                  [base_table_name |-> excel_data[i].base_table_name,
                                   nrows |-> excel_data[i].nrows]))

\* the variant of process_excel_file that skips a sheet whose processing
\* raises
RECURSIVE ProcessSkippingFailedSheets(_)
ProcessSkippingFailedSheets(excel_data) ==
    IF excel_data = <<>>
    THEN [status |-> "success", processed_sheets |-> <<>>, error |-> ""]
    ELSE LET rest == ProcessSkippingFailedSheets(Tail(excel_data))
             sheet == Head(excel_data)
         IN  IF sheet.raises THEN rest
             ELSE [rest EXCEPT !.processed_sheets =
                      <<[base_table_name |-> sheet.base_table_name,
                         nrows |-> sheet.nrows]>> \o @]

\* excel_processor.py 37-146: the payload; the error payload has no
\* processed_sheets entry, which reads as an empty one
process_excel_file(excel_data) ==
    LET loop == ProcessSheetsFrom(excel_data, 1, <<>>)
    IN  IF loop.raised = 0
        THEN [status |-> "success", processed_sheets |-> loop.processed_sheets,
              error |-> ""]
        ELSE [status |-> "error", processed_sheets |-> <<>>,
              error |-> "sheet " \o Str(loop.raised)]

CurrentTable ==
    unique_table_name(uploaded_file, index, processed_sheets[index + 1].base_table_name)

UploadIdle ==
    /\ pc' = "idle"
    /\ uploaded_file' = 0
    /\ processed_sheets' = <<>>
    /\ index' = 0
    /\ sheet_models' = <<>>

\* main.py 464-479: process_excel_file reports an error, or no sheet; the
\* handler raises before it adds the UploadedFile.
UploadProcessingFails(wb) ==
    /\ pc = "idle"
    /\ uploadSeq < MaxUploads
    /\ LET processed_payload == process_excel_file(wb)
       IN  /\ processed_payload.status # "success"
                \/ processed_payload.processed_sheets = <<>>
           /\ response' =
                 IF processed_payload.status # "success"
                 THEN [op |-> "upload", status |-> 500, detail |-> "processing",
                       file_id |-> 0, tables |-> {},
                       error |-> processed_payload.error]
                 ELSE [op |-> "upload", status |-> 400, detail |-> "no sheets",
                       file_id |-> 0, tables |-> {}]
    /\ uploadSeq' = uploadSeq + 1
    /\ UNCHANGED <<uploaded_files, file_sheets, tables, pc, uploaded_file,
                   processed_sheets, index, sheet_models, call>>
    /\ UNCHANGED <<gateVars, colVars, callVars>>

\* main.py 464-512: processing succeeded, the UploadedFile is flushed and
\* has its id; the loop over the sheets starts.
UploadStart(wb) ==
    /\ pc = "idle"
    /\ uploadSeq < MaxUploads
    /\ process_excel_file(wb).status = "success"
    /\ process_excel_file(wb).processed_sheets # <<>>
    /\ uploadSeq' = uploadSeq + 1
    /\ uploaded_file' = NextFileId
    /\ processed_sheets' = process_excel_file(wb).processed_sheets
    /\ index' = 0
    /\ sheet_models' = <<>>
    /\ pc' = "create"
    /\ response' = [op |-> "upload", status |-> 0, detail |-> "running",
                    file_id |-> NextFileId, tables |-> {}]
    /\ call' = NoCall
    /\ UNCHANGED <<uploaded_files, file_sheets, tables>>
    /\ UNCHANGED <<gateVars, colVars, callVars>>

\* Names the running upload gives to the sheets 0..upto-1 of its workbook.
WorkbookTables(upto) ==
    {unique_table_name(uploaded_file, i, processed_sheets[i + 1].base_table_name) :
        i \in 0..(upto - 1)}

\* main.py 628-635: an exception of the sheet loop reaches the outer
\* handlers: the session is rolled back and the error is reported.
MaterializationError ==
    /\ UploadIdle
    /\ response' = [op |-> "upload", status |-> 500, detail |-> "materialization",
                    file_id |-> uploaded_file,
                    tables |-> WorkbookTables(index + 1)]
    /\ UNCHANGED <<uploaded_files, file_sheets>>

\* database.py 245-264, one attempt of create_dynamic_table_from_schema
\* called from main.py 523: CREATE TABLE IF NOT EXISTS, then commit.
CreateTableAttempt(resp) ==
    /\ pc = "create"
    /\ LET c == Attempt(CallAt("create"), resp)
       IN  /\ call' = c
           /\ IF c.outcome = "returned"
              THEN /\ tables' = IF CurrentTable \in DOMAIN tables
                                THEN tables
                                ELSE tables @@ (CurrentTable :> <<>>)
                   /\ pc' = "insert"
                   /\ UNCHANGED <<uploaded_files, file_sheets, uploaded_file,
                                  processed_sheets, index, sheet_models, response>>
              ELSE IF c.outcome = "raised"
              THEN /\ MaterializationError
                   /\ UNCHANGED tables
              ELSE UNCHANGED <<uploaded_files, file_sheets, tables, pc, uploaded_file,
                               processed_sheets, index, sheet_models, response>>
    /\ UNCHANGED <<uploadSeq, gateVars, colVars, callVars>>

\* database.py 276-278: the rows of the dataframe tagged with file_id and
\* row_index = range(len(df)); data identifies the dataframe row.
TaggedRows(file_id, n, upload, sheet) ==
    [i \in 1..n |-> [file_id |-> file_id, row_index |-> i - 1,
                     data |-> <<upload, sheet, i - 1>>]]

\* the variant of lines 281-282 without the transaction: the rows written
\* before the failure stay
InsertWithoutTransaction(stored, rows, resp) ==
    IF resp = "ok" THEN stored \o rows ELSE stored \o SubSeq(rows, 1, 1)

\* database.py 281-282: "with engine.begin()" appends the rows and commits,
\* or rolls back when to_sql or the commit raises
InsertTransaction(stored, rows, resp) ==
    IF resp = "ok" THEN stored \o rows ELSE stored

\* database.py 273-290, one attempt of insert_dataframe_to_table called from
\* main.py 524-529: the rows are appended in one transaction; then
\* main.py 531-571 collects the FileSheet and the loop goes on.
InsertAttempt(resp) ==
    /\ pc = "insert"
    /\ LET c == Attempt(CallAt("insert"), resp)
           n == processed_sheets[index + 1].nrows
       IN  /\ call' = c
           /\ tables' = [tables EXCEPT ![CurrentTable] =
                            InsertTransaction(@, TaggedRows(uploaded_file, n,
                                                            uploadSeq, index), resp)]
           /\ IF c.outcome = "returned"
              THEN /\ sheet_models' = Append(sheet_models,
                                        [file_id |-> uploaded_file,
                                         sheet_index |-> index,
                                         table_name |-> CurrentTable])
                   /\ index' = index + 1
                   /\ pc' = IF index + 1 = Len(processed_sheets) THEN "persist" ELSE "create"
                   /\ UNCHANGED <<uploaded_files, file_sheets, uploaded_file,
                                  processed_sheets, response>>
              ELSE IF c.outcome = "raised"
              THEN MaterializationError
              ELSE UNCHANGED <<uploaded_files, file_sheets, pc, uploaded_file,
                               processed_sheets, index, sheet_models, response>>
    /\ UNCHANGED <<uploadSeq, gateVars, colVars, callVars>>

\* main.py 574-591 and 604-626: the metadata transaction commits.
PersistCommit ==
    /\ pc = "persist"
    /\ uploaded_files' = uploaded_files \cup {uploaded_file}
    /\ file_sheets' = file_sheets \cup {sheet_models[i] : i \in 1..Len(sheet_models)}
    /\ response' = [op |-> "upload", status |-> 200, detail |-> "success",
                    file_id |-> uploaded_file,
                    tables |-> WorkbookTables(Len(processed_sheets))]
    /\ UploadIdle
    /\ UNCHANGED <<tables, call, uploadSeq, gateVars, colVars, callVars>>

\* the variant of the cleanup loop that ends at the first DROP that raises
RECURSIVE CleanupUntilFailure(_, _, _, _)
CleanupUntilFailure(models, i, failing, storage) ==
    IF i > Len(models) THEN storage
    ELSE LET table_name == models[i].table_name
             issued == Append(storage.issued, table_name)
         IN  IF table_name \in failing
             THEN [issued |-> issued, tables |-> storage.tables]
             ELSE CleanupUntilFailure(models, i + 1, failing,
                     [issued |-> issued,
                      tables |-> [t \in DOMAIN storage.tables \ {table_name} |->
                                     storage.tables[t]]])

\* main.py 595-601: the cleanup loop from sheet model i on; failing holds the
\* tables whose DROP TABLE IF EXISTS raises; issued are the tables a DROP
\* was executed for
RECURSIVE CleanupFrom(_, _, _, _)
CleanupFrom(models, i, failing, storage) ==
    IF i > Len(models) THEN storage
    ELSE LET table_name == models[i].table_name
         IN  CleanupFrom(models, i + 1, failing,
                [issued |-> Append(storage.issued, table_name),
                 tables |-> IF table_name \in failing
                            THEN storage.tables
                            ELSE [t \in DOMAIN storage.tables \ {table_name} |->
                                     storage.tables[t]]])

\* main.py 592-602 and 628-635: flush or commit raises; rollback, then a
\* DROP TABLE IF EXISTS per collected sheet, cleanup errors being ignored
\* (the tables in kept are those whose drop failed); the error is reported.
PersistFails(kept) ==
    /\ pc = "persist"
    /\ kept \subseteq {sheet_models[i].table_name : i \in 1..Len(sheet_models)}
    /\ LET cleanup == CleanupFrom(sheet_models, 1, kept,
                                  [issued |-> <<>>, tables |-> tables])
       IN  /\ tables' = cleanup.tables
           /\ response' = [op |-> "upload", status |-> 500, detail |-> "metadata",
                           file_id |-> uploaded_file,
                           tables |-> WorkbookTables(Len(processed_sheets)),
                           drops |-> cleanup.issued, drop_failed |-> kept]
    /\ UploadIdle
    /\ UNCHANGED <<uploaded_files, file_sheets, call, uploadSeq, gateVars, colVars, callVars>>

\* main.py 846-874: delete_file removes the metadata rows of the file and
\* commits (ok), or fails and rolls back; an unknown id is a 404.
delete_file(file_id, ok) ==
    /\ pc = "idle"
    /\ IF file_id \notin uploaded_files
       THEN /\ response' = [op |-> "delete", status |-> 404, detail |-> "not found",
                            file_id |-> file_id, tables |-> {}]
            /\ UNCHANGED <<uploaded_files, file_sheets>>
       ELSE IF ok
       THEN /\ uploaded_files' = uploaded_files \ {file_id}
            /\ file_sheets' = {s \in file_sheets : s.file_id # file_id}
            /\ response' = [op |-> "delete", status |-> 200, detail |-> "deleted",
                            file_id |-> file_id, tables |-> {}]
       ELSE /\ response' = [op |-> "delete", status |-> 500, detail |-> "failed",
                            file_id |-> file_id, tables |-> {}]
            /\ UNCHANGED <<uploaded_files, file_sheets>>
    /\ UNCHANGED <<tables, pc, uploaded_file, processed_sheets, index,
                   sheet_models, call, uploadSeq, gateVars, colVars, callVars>>

InitUpload ==
    /\ uploaded_files = {}
    /\ file_sheets = {}
    /\ tables = <<>>
    /\ pc = "idle"
    /\ uploaded_file = 0
    /\ processed_sheets = <<>>
    /\ index = 0
    /\ sheet_models = <<>>
    /\ call = NoCall
    /\ response = [op |-> "none", status |-> 0, detail |-> "none",
                   file_id |-> 0, tables |-> {}]
    /\ uploadSeq = 0

InitGateIdle ==
    /\ gate = [fn |-> "none", sql |-> "", table_name |-> "",
               result |-> [ok |-> FALSE, text |-> "", error |-> ""],
               outcome |-> "", error |-> ""]
    /\ executed = <<>>

InitColsIdle == colcall = [fn |-> "none", columns |-> <<>>, mappings |-> <<>>]

InitCallIdle == fcall = [fn |-> "none"]

Init == InitUpload /\ InitGateIdle /\ InitColsIdle /\ InitCallIdle

Next ==
    \/ \E wb \in Workbooks : UploadProcessingFails(wb)
    \/ \E wb \in Workbooks : UploadStart(wb)
    \/ \E resp \in StorageResponses : CreateTableAttempt(resp)
    \/ \E resp \in StorageResponses : InsertAttempt(resp)
    \/ PersistCommit
    \/ \E kept \in SUBSET DOMAIN tables : PersistFails(kept)
    \/ \E f \in 1..MaxUploads, ok \in BOOLEAN : delete_file(f, ok)

Spec == Init /\ [][Next]_vars

(***************************************************************************)
(* database.py: the query gate _sanitize_sql and execute_sql.              *)
(***************************************************************************)
DEFAULT_SQL_LIMIT == 200

\* SAFE_SQL_PATTERN = ^\s*SELECT\b, IGNORECASE, used with match()
SAFE_SQL_PATTERN(text) ==
    LET t == LStrip(text)
    IN  /\ Len(t) >= 6
        /\ Upper(SubSeq(t, 1, 6)) = "SELECT"
        /\ (Len(t) = 6 \/ ~IsWordChar(Char(t, 7)))

FORBIDDEN_SQL_TOKENS ==
    {"INSERT", "UPDATE", "DELETE", "DROP", "ALTER", "TRUNCATE", "MERGE",
     "CALL", "EXEC", "PRAGMA"}

COMMENT_TOKENS == <<"--", "/*", "//">>

\* Variant of ForbiddenFound: the tokens searched in the text as written.
ForbiddenFoundCaseSensitive(stripped) ==
    \E token \in FORBIDDEN_SQL_TOKENS : Contains(stripped, token)

\* database.py 317-320
ForbiddenFound(stripped) ==
    \E token \in FORBIDDEN_SQL_TOKENS : Contains(Upper(stripped), token)

\* database.py 322-324: the loop over COMMENT_TOKENS, from token k on
RECURSIVE CutComments(_, _)
CutComments(stripped, k) ==
    IF k > Len(COMMENT_TOKENS) THEN stripped
    ELSE IF Contains(stripped, COMMENT_TOKENS[k])
    THEN CutComments(Strip(SplitFirst(stripped, COMMENT_TOKENS[k])), k + 1)
    ELSE CutComments(stripped, k + 1)

\* database.py 326-327
AppendLimit(stripped, upper_sql) ==
    IF ~Contains(upper_sql, "LIMIT")
    THEN RStripChar(stripped, ";") \o " LIMIT " \o Str(DEFAULT_SQL_LIMIT)
    ELSE stripped

\* database.py 311-329: the returned text, or the ValueError raised
_sanitize_sql(sql) ==
    LET stripped == Strip(sql)
        upper_sql == Upper(stripped)
    IN  IF ~SAFE_SQL_PATTERN(stripped)
        THEN [ok |-> FALSE, text |-> "", error |-> "Only SELECT statements are allowed"]
        ELSE IF ForbiddenFound(stripped)
        THEN [ok |-> FALSE, text |-> "", error |-> "Forbidden SQL operation detected"]
        ELSE [ok |-> TRUE, text |-> AppendLimit(CutComments(stripped, 1), upper_sql),
              error |-> ""]

\* the variant of line 336 that replaces the upper-case placeholder only
TableSubstitutedUpperOnly(sanitized_sql, table_name) ==
    Replace(sanitized_sql, "FROM data", "FROM " \o table_name)

\* database.py 336
TableSubstituted(sanitized_sql, table_name) ==
    Replace(Replace(sanitized_sql, "FROM data", "FROM " \o table_name),
            "from data", "from " \o table_name)

\* Variant of ExecuteSqlRun: a rejected query is replaced by a fallback query.
ExecuteSqlWithFallback(table_name, sql, dbok) ==
    LET sanitized == _sanitize_sql(sql)
        safe_sql == IF sanitized.ok
                    THEN TableSubstituted(sanitized.text, table_name)
                    ELSE "SELECT * FROM " \o table_name \o " LIMIT 10"
    IN  [outcome |-> IF dbok THEN "returned" ELSE "raised",
         error |-> IF dbok THEN "" ELSE "engine error",
         statements |-> <<safe_sql>>]

\* database.py 332-340: the outcome of execute_sql and the statements it
\* hands to pd.read_sql; dbok is whether the engine runs the statement.
ExecuteSqlRun(table_name, sql, dbok) ==
    LET sanitized == _sanitize_sql(sql)
    IN  IF ~sanitized.ok
        THEN [outcome |-> "raised", error |-> sanitized.error, statements |-> <<>>]
        ELSE [outcome |-> IF dbok THEN "returned" ELSE "raised",
              error |-> IF dbok THEN "" ELSE "engine error",
              statements |-> <<TableSubstituted(sanitized.text, table_name)>>]

\* Query texts of the model: a head followed by up to MaxTails tails.
QueryHeads ==
    {"SELECT *", "select id", "  SELECT a", "SELECTED", "DROP TABLE users", "SELECT\n*"}

QueryTails ==
    {" FROM t", " FROM data", " from data", "; DELETE FROM t", "; delete from t",
     "; SELECT 2", ";", " -- ignore\n", " /* c */", " //", "* x", " LIMIT 5",
     " limit 5 ", " WHERE updated_at > 1"}

RECURSIVE Concat(_)
Concat(chunks) == IF chunks = <<>> THEN "" ELSE Head(chunks) \o Concat(Tail(chunks))

Queries ==
    {h \o Concat(ts) : h \in QueryHeads,
                       ts \in UNION {[1..n -> QueryTails] : n \in 0..MaxTails}}

TableNames == {"test_table", "file_1_sheet_0_orders"}

\* a call of _sanitize_sql with the pending query
sanitize_sql_call ==
    /\ gate.fn = "pending"
    /\ gate' = [gate EXCEPT !.fn = "_sanitize_sql", !.result = _sanitize_sql(gate.sql)]
    /\ executed' = <<>>
    /\ UNCHANGED <<uploadVars, colVars, callVars>>

\* a call of execute_sql with the pending query
execute_sql(dbok) ==
    /\ gate.fn = "pending"
    /\ LET run == ExecuteSqlRun(gate.table_name, gate.sql, dbok)
       IN  /\ gate' = [gate EXCEPT !.fn = "execute_sql", !.outcome = run.outcome,
                                   !.error = run.error]
           /\ executed' = run.statements
    /\ UNCHANGED <<uploadVars, colVars, callVars>>

NoResult == [ok |-> FALSE, text |-> "", error |-> ""]

InitGate ==
    /\ gate \in [fn : {"pending"}, sql : Queries, table_name : TableNames,
                  result : {NoResult}, outcome : {""}, error : {""}]
    /\ executed = <<>>

NextGate ==
    \/ sanitize_sql_call
    \/ \E dbok \in BOOLEAN : execute_sql(dbok)

InitGateSpec == InitUpload /\ InitGate /\ InitColsIdle /\ InitCallIdle

SpecGate == InitGateSpec /\ [][NextGate]_vars

(***************************************************************************)
(* database.py sanitize_column_name and excel_processor.py                 *)
(* _build_column_mappings.                                                 *)
(***************************************************************************)
MaxIdentifierLength == 63

\* re.sub(r'[^a-zA-Z0-9_]', '_', name)
RECURSIVE SubNonWordRange(_, _, _)
SubNonWordRange(name, lo, hi) ==
    IF lo > hi THEN ""
    ELSE IF lo = hi
         THEN (IF IsWordChar(Char(name, lo)) THEN Char(name, lo) ELSE "_")
    ELSE SubNonWordRange(name, lo, (lo + hi) \div 2)
            \o SubNonWordRange(name, (lo + hi) \div 2 + 1, hi)

SubNonWord(name) == SubNonWordRange(name, 1, Len(name))

\* str.isalpha() of one ASCII character
IsAlpha(c) == c \in CharsOf(LowerLetters) \cup CharsOf(UpperLetters)

\* sanitized[:63]
Truncate(text, n) == IF Len(text) > n THEN SubSeq(text, 1, n) ELSE text

\* database.py 191-199
sanitize_column_name(name) ==
    LET replaced == SubNonWord(name)
        sanitized == IF replaced # "" /\ ~IsAlpha(Char(replaced, 1))
                                      /\ Char(replaced, 1) # "_"
                     THEN "col_" \o replaced
                     ELSE replaced
    IN  Lower(Truncate(sanitized, MaxIdentifierLength))

\* excel_processor.py 153-164: the loop body for the column at position idx,
\* on the state [mappings, collision_counter] of the loop
MapColumn(state, column, idx) ==
    LET s0 == sanitize_column_name(column)
        sanitized == IF s0 = "" THEN "column_" \o Str(idx) ELSE s0
        counter == state.collision_counter
    IN  IF sanitized \in DOMAIN counter
        THEN [mappings |-> Append(state.mappings,
                               sanitized \o "_" \o Str(counter[sanitized] + 1)),
              collision_counter |-> [counter EXCEPT ![sanitized] = @ + 1]]
        ELSE [mappings |-> Append(state.mappings, sanitized),
              collision_counter |-> (sanitized :> 0) @@ counter]

RECURSIVE MapColumnsFrom(_, _, _)
MapColumnsFrom(state, columns, idx) ==
    IF idx >= Len(columns) THEN state
    ELSE MapColumnsFrom(MapColumn(state, columns[idx + 1], idx), columns, idx + 1)

\* excel_processor.py 148-166: the sanitized names, in column order
_build_column_mappings(columns) ==
    MapColumnsFrom([mappings |-> <<>>, collision_counter |-> <<>>], columns, 0).mappings

\* database.py 228-245: the column names of the CREATE TABLE statement, in the
\* order of the statement, for the data columns of schema['columns']
column_defs(columns) ==
    <<"id", "file_id", "created_at", "updated_at", "row_index">> \o columns

\* Two headers longer than MaxIdentifierLength that agree on their first
\* MaxIdentifierLength characters.
LongHeaderUSD ==
    "Total amount of all orders shipped to customers in the last quarter (USD)"
LongHeaderEUR ==
    "Total amount of all orders shipped to customers in the last quarter (EUR)"

\* Column headers of the model's dataframes.
ColumnNames == {"A", "a", "a_1", "a 1", "a_1_1", "1a", "", "Total $",
                LongHeaderUSD, LongHeaderEUR, "id", "File ID"}

\* dataframes with pairwise distinct column labels, up to MaxColumns columns
ColumnLists ==
    {cs \in UNION {[1..n -> ColumnNames] : n \in 1..MaxColumns} :
        \A i, j \in DOMAIN cs : i # j => cs[i] # cs[j]}

build_column_mappings_call ==
    /\ colcall.fn = "pending"
    /\ colcall' = [colcall EXCEPT !.fn = "_build_column_mappings",
                                  !.mappings = _build_column_mappings(colcall.columns)]
    /\ UNCHANGED <<uploadVars, gateVars, callVars>>

InitCols ==
    colcall \in [fn : {"pending"}, columns : ColumnLists, mappings : {<<>>}]

NextCols == build_column_mappings_call

InitColsSpec == InitUpload /\ InitGateIdle /\ InitCols /\ InitCallIdle

SpecCols == InitColsSpec /\ [][NextCols]_vars

(***************************************************************************)
(* database.py: sanitize_table_name and sanitize_column_name on one name.  *)
(***************************************************************************)
\* the variant of sanitize_table_name that limits the length before it adds
\* the prefix
SanitizeTableNamePrefixLast(name) ==
    LET replaced == Truncate(SubNonWord(name), MaxIdentifierLength)
    IN  Lower(IF replaced # "" /\ ~IsAlpha(Char(replaced, 1))
                               /\ Char(replaced, 1) # "_"
              THEN "t_" \o replaced
              ELSE replaced)

\* database.py 37-45
sanitize_table_name(name) ==
    LET replaced == SubNonWord(name)
        sanitized == IF replaced # "" /\ ~IsAlpha(Char(replaced, 1))
                                      /\ Char(replaced, 1) # "_"
                     THEN "t_" \o replaced
                     ELSE replaced
    IN  Lower(Truncate(sanitized, MaxIdentifierLength))

\* Sheet names and column headers: a first character, then up to
\* MaxNameChunks pieces; one piece alone is nearly MaxIdentifierLength long.
MaxNameChunks == 2
LongChunk == "quarterly_revenue_forecast_for_the_northern_sales_region_2024"
NameHeads == {"", "A", "z", "1", "_", " ", "$"}
NameChunks == {"b", "Q 2", "#", "9", LongChunk}
Names ==
    {h \o Concat(cs) : h \in NameHeads,
                       cs \in UNION {[1..n -> NameChunks] : n \in 0..MaxNameChunks}}

sanitize_column_name_call ==
    /\ fcall.fn = "pending"
    /\ fcall' = [fcall EXCEPT !.fn = "sanitize_column_name",
                              !.result = sanitize_column_name(fcall.arg)]
    /\ UNCHANGED <<uploadVars, gateVars, colVars>>

sanitize_table_name_call ==
    /\ fcall.fn = "pending"
    /\ fcall' = [fcall EXCEPT !.fn = "sanitize_table_name",
                              !.result = sanitize_table_name(fcall.arg)]
    /\ UNCHANGED <<uploadVars, gateVars, colVars>>

InitNames == fcall \in [fn : {"pending"}, arg : Names, result : {""}]

NextNames == sanitize_column_name_call \/ sanitize_table_name_call

InitNamesSpec == InitUpload /\ InitGateIdle /\ InitColsIdle /\ InitNames

SpecNames == InitNamesSpec /\ [][NextNames]_vars

(***************************************************************************)
(* excel_processor.py: _infer_schema and _map_series_to_sql_type.          *)
(* A series is described by its pandas dtype and by whether it holds a     *)
(* null; bool and int64 series hold none.                                  *)
(***************************************************************************)
Dtypes == {"bool", "datetime64[ns]", "int64", "float64", "object"}

\* excel_processor.py 315-333, the type of the returned pair
_map_series_to_sql_type(series) ==
    IF series.dtype = "bool" THEN "BOOLEAN"
    ELSE IF series.dtype = "datetime64[ns]" THEN "TIMESTAMP"
    ELSE IF series.dtype \in {"int64", "float64"}
         THEN (IF series.dtype = "int64" THEN "INTEGER" ELSE "FLOAT")
    ELSE "TEXT"

\* excel_processor.py 276-313: the column definitions of the schema of the
\* dataframe df, a sequence of series [name, dtype, has_null]
_infer_schema(df) ==
    LET column_mappings == _build_column_mappings([i \in DOMAIN df |-> df[i].name])
    IN  [i \in DOMAIN df |->
            [name |-> column_mappings[i],
             original_name |-> df[i].name,
             type |-> _map_series_to_sql_type(df[i]),
             nullable |-> df[i].has_null]]

SeriesNames == {"Order Date", "amount", "1st"}

SeriesOf(name) ==
    {s \in [name : {name}, dtype : Dtypes, has_null : BOOLEAN] :
        s.has_null => s.dtype \notin {"bool", "int64"}}

\* dataframes with pairwise distinct column labels, up to MaxColumns columns
Dataframes ==
    {df \in UNION {[1..n -> UNION {SeriesOf(name) : name \in SeriesNames}] :
                      n \in 1..MaxColumns} :
        \A i, j \in DOMAIN df : i # j => df[i].name # df[j].name}

infer_schema_call ==
    /\ fcall.fn = "pending"
    /\ fcall' = [fcall EXCEPT !.fn = "_infer_schema",
                              !.result = _infer_schema(fcall.arg)]
    /\ UNCHANGED <<uploadVars, gateVars, colVars>>

InitSchema == fcall \in [fn : {"pending"}, arg : Dataframes, result : {<<>>}]

NextSchema == infer_schema_call

InitSchemaSpec == InitUpload /\ InitGateIdle /\ InitColsIdle /\ InitSchema

SpecSchema == InitSchemaSpec /\ [][NextSchema]_vars

(***************************************************************************)
(* Cell values of a pandas Series / DataFrame.  A cell is a record         *)
(* [k, n, s]: k is the kind of the value, n the number it holds counted in *)
(* halves (so that 2.5 is 5 and True is 2), s the text it holds.           *)
(***************************************************************************)
Null == [k |-> "null", n |-> 0, s |-> ""]
Num(halves) == [k |-> "num", n |-> halves, s |-> ""]
Inf == [k |-> "inf", n |-> 0, s |-> ""]
Bool(b) == [k |-> "bool", n |-> IF b THEN 2 ELSE 0, s |-> ""]
Text(t) == [k |-> "str", n |-> 0, s |-> t]

\* pd.isna(value)
IsNull(cell) == cell.k = "null"

\* series.dropna(), keeping the order
RECURSIVE DropNa(_)
DropNa(values) ==
    IF values = <<>> THEN <<>>
    ELSE IF IsNull(Head(values)) THEN DropNa(Tail(values))
    ELSE <<Head(values)>> \o DropNa(Tail(values))

\* the variant of dropna that keeps every value
KeepNa(values) == values

IsDigits(text) ==
    text # "" /\ \A i \in 1..Len(text) : Char(text, i) \in CharsOf(DigitChars)

\* the text is a decimal numeral that pd.to_numeric parses: digits, or
\* digits "." digits
IsNumberText(text) ==
    LET dot == Find(text, ".")
    IN  IF dot = 0 THEN IsDigits(text)
        ELSE IsDigits(SubSeq(text, 1, dot - 1))
                /\ IsDigits(SubSeq(text, dot + 1, Len(text)))

\* the numeral has no fractional part other than zeros
IsIntegralText(text) ==
    LET dot == Find(text, ".")
    IN  dot = 0 \/ \A i \in (dot + 1)..Len(text) : Char(text, i) = "0"

\* the text is a date YYYY-MM-DD that pd.to_datetime parses
IsDateText(text) ==
    /\ Len(text) = 10
    /\ Char(text, 5) = "-" /\ Char(text, 8) = "-"
    /\ IsDigits(SubSeq(text, 1, 4))
    /\ IsDigits(SubSeq(text, 6, 7))
    /\ IsDigits(SubSeq(text, 9, 10))

(***************************************************************************)
(* database.py: detect_column_type.                                        *)
(***************************************************************************)
\* the texts of the list of _is_boolean_series
BooleanTexts == {"true", "false", "True", "False", "TRUE", "FALSE"}

\* val in [True, False, 0, 1, 'true', ..., 0.0, 1.0]
InBooleanList(cell) ==
    \/ cell.k = "bool"
    \/ cell.k = "num" /\ cell.n \in {0, 2}
    \/ cell.k = "str" /\ cell.s \in BooleanTexts

\* series.unique() as a set; True, 1 and 1.0 are one value
Unique(values) == {[k |-> IF values[i].k = "bool" THEN "num" ELSE values[i].k,
                    n |-> values[i].n, s |-> values[i].s] : i \in DOMAIN values}

\* database.py 107-110
_is_boolean_series(values) ==
    /\ Cardinality(Unique(values)) <= 2
    /\ \A i \in DOMAIN values : InBooleanList(values[i])

\* pd.to_numeric accepts the value
ParsesAsNumber(cell) ==
    \/ cell.k \in {"bool", "num", "inf"}
    \/ cell.k = "str" /\ IsNumberText(cell.s)

\* database.py 120-126
_is_numeric_series(values) == \A i \in DOMAIN values : ParsesAsNumber(values[i])

\* val == int(val) for one parsed value
IsIntegral(cell) ==
    IF cell.k = "str" THEN IsIntegralText(cell.s) ELSE cell.n % 2 = 0

\* database.py 128-134: all(val == int(val) ...) walks the values in order;
\* int(inf) raises OverflowError, which the except clause does not catch.
\* The result is "True", "False" or "OverflowError".
RECURSIVE _is_integer_series(_)
_is_integer_series(values) ==
    IF values = <<>> THEN "True"
    ELSE IF Head(values).k = "inf" THEN "OverflowError"
    ELSE IF ~IsIntegral(Head(values)) THEN "False"
    ELSE _is_integer_series(Tail(values))

\* database.py 112-118
_is_datetime_series(values) ==
    \A i \in DOMAIN values : values[i].k = "str" /\ IsDateText(values[i].s)

\* the values detect_column_type inspects (database.py 59)
NonNullValues(series) == DropNa(series)

\* database.py 47-105; confidence and null_ratio are left out
detect_column_type(series) ==
    LET non_null_values == NonNullValues(series)
        is_nullable == \E i \in DOMAIN series : IsNull(series[i])
        Returned(type, nullable) ==
            [outcome |-> "returned", type |-> type, nullable |-> nullable]
    IN  IF series = <<>> \/ \A i \in DOMAIN series : IsNull(series[i])
        THEN Returned("TEXT", TRUE)
        ELSE IF non_null_values = <<>> THEN Returned("TEXT", TRUE)
        ELSE IF _is_boolean_series(non_null_values)
             THEN Returned("BOOLEAN", is_nullable)
        ELSE IF _is_numeric_series(non_null_values)
             THEN (CASE _is_integer_series(non_null_values) = "True"
                            -> Returned("INTEGER", is_nullable)
                     [] _is_integer_series(non_null_values) = "False"
                            -> Returned("FLOAT", is_nullable)
                     [] OTHER
                            -> [outcome |-> "OverflowError", type |-> "",
                                nullable |-> FALSE])
        ELSE IF _is_datetime_series(non_null_values)
             THEN Returned("DATETIME", is_nullable)
        ELSE Returned("TEXT", is_nullable)

\* Columns of the model: up to MaxValues values of one family (booleans,
\* numbers, texts), into which up to MaxNulls nulls are inserted.
MaxValues == 3
MaxNulls == 2
BoolValues == {Bool(TRUE), Bool(FALSE)}
NumValues == {Num(0), Num(2), Num(4), Num(5), Inf}
TextValues == {Text("true"), Text("FALSE"), Text("1"), Text("2.5"),
               Text("2023-01-01"), Text("apple")}
ValueFamilies == {BoolValues, NumValues, TextValues}
Columns ==
    UNION {[1..n -> family] : n \in 0..MaxValues, family \in ValueFamilies}

\* values with a null inserted after position pos
InsertNull(values, pos) ==
    SubSeq(values, 1, pos) \o <<Null>> \o SubSeq(values, pos + 1, Len(values))

detect_column_type_call ==
    /\ fcall.fn = "pending"
    /\ fcall' = [fcall EXCEPT !.fn = "detect_column_type",
                              !.result = detect_column_type(fcall.arg),
                              !.first = detect_column_type(fcall.arg)]
    /\ UNCHANGED <<uploadVars, gateVars, colVars>>

\* detect_column_type on the column of the latest call with one more null
detect_with_added_null(pos) ==
    /\ fcall.fn = "detect_column_type"
    /\ fcall.nulls < MaxNulls
    /\ pos \in 0..Len(fcall.arg)
    /\ fcall' = [fcall EXCEPT !.arg = InsertNull(fcall.arg, pos),
                              !.result = detect_column_type(InsertNull(fcall.arg, pos)),
                              !.nulls = @ + 1]
    /\ UNCHANGED <<uploadVars, gateVars, colVars>>

NoType == [outcome |-> "none", type |-> "", nullable |-> FALSE]

InitTypes ==
    fcall \in [fn : {"pending"}, arg : Columns, result : {NoType},
               first : {NoType}, nulls : {0}]

NextTypes ==
    \/ detect_column_type_call
    \/ \E pos \in 0..(MaxValues + MaxNulls) : detect_with_added_null(pos)

InitTypesSpec == InitUpload /\ InitGateIdle /\ InitColsIdle /\ InitTypes

SpecTypes == InitTypesSpec /\ [][NextTypes]_vars

(***************************************************************************)
(* data_cleaner.py: DataCleaner.clean.                                     *)
(* A DataFrame is [nrows, columns]; a column is [name, dtype, cells] with  *)
(* nrows cells.  An object column holds texts and nulls, an int64 /        *)
(* float64 column numbers and nulls, a datetime64[ns] column dates and     *)
(* nulls.  The state of the DataCleaner instance is the record self.       *)
(* The working state w of a call is [df, self, own, made]: made is the     *)
(* value of the frame object that line 30 created, and own says that df is *)
(* still that object (df.rename, df.dropna and df.drop_duplicates return   *)
(* new objects, df[col] = ... writes into the object).                     *)
(***************************************************************************)
Date(iso) == [k |-> "date", n |-> 0, s |-> iso]

ColumnLabels(df) == [i \in DOMAIN df.columns |-> df.columns[i].name]

HasDuplicateLabels(df) ==
    \E i, j \in DOMAIN df.columns :
        i # j /\ df.columns[i].name = df.columns[j].name

SetColumn(df, c, dtype, cells) ==
    [df EXCEPT !.columns[c] = [name |-> df.columns[c].name,
                               dtype |-> dtype, cells |-> cells]]

\* df[col] = cells: written into the frame object that df is
AssignColumn(w, c, dtype, cells) ==
    [w EXCEPT !.df = SetColumn(w.df, c, dtype, cells),
              !.made = IF w.own THEN SetColumn(w.df, c, dtype, cells) ELSE @]

\* df = <a new frame object>
Rebind(w, df) == [w EXCEPT !.df = df, !.own = FALSE]

\* series.notna().sum() and series.isna().sum()
NotNaCount(cells) == Cardinality({i \in DOMAIN cells : ~IsNull(cells[i])})

NaCount(cells) == Cardinality({i \in DOMAIN cells : IsNull(cells[i])})

\* the elements of seq at the positions of keep, in order
RECURSIVE KeepFrom(_, _, _)
KeepFrom(seq, keep, i) ==
    IF i > Len(seq) THEN <<>>
    ELSE (IF i \in keep THEN <<seq[i]>> ELSE <<>>) \o KeepFrom(seq, keep, i + 1)

\* the dataframe reduced to the rows of keep
KeepRows(df, keep) ==
    [nrows |-> Cardinality(keep \cap (1..df.nrows)),
     columns |-> [c \in DOMAIN df.columns |->
                     [df.columns[c] EXCEPT !.cells = KeepFrom(df.columns[c].cells, keep, 1)]]]

\* row r of the dataframe
Row(df, r) == [c \in DOMAIN df.columns |-> df.columns[c].cells[r]]

\* data_cleaner.py 80-93
_reset_state(df) ==
    [issues |-> <<>>,
     cleaning_steps |-> <<>>,
     issue_summary |-> <<>>,
     metrics |-> [filled_null_values |-> 0, rows_dropped |-> 0,
                  duplicates_removed |-> 0, numeric_conversions |-> 0,
                  datetime_conversions |-> 0, text_standardized |-> 0],
     columns_renamed |-> <<>>,
     original_shape |-> <<df.nrows, Len(df.columns)>>]

\* data_cleaner.py 95-98; the message is kept as the column and the count
\* it names
_record_issue(self, issue_type, column, count) ==
    [self EXCEPT
        !.issues = Append(self.issues,
                          [type |-> issue_type, column |-> column, count |-> count]),
        !.issue_summary =
            (issue_type :> (IF issue_type \in DOMAIN self.issue_summary
                            THEN self.issue_summary[issue_type] ELSE 0) + 1)
                @@ self.issue_summary]

\* data_cleaner.py 100-101
_record_step(self, step) ==
    [self EXCEPT !.cleaning_steps = Append(self.cleaning_steps, step)]

\* data_cleaner.py 103-104
_increment_metric(self, metric, value) ==
    [self EXCEPT !.metrics[metric] = self.metrics[metric] + value]

\* data_cleaner.py 109: the header counts as unnamed
IsUnnamed(col) == Strip(col) = "" \/ StartsWith(col, "Unnamed:")

\* df.rename(columns={old: new}): every column labelled old is renamed
RenameLabel(df, old, new) ==
    [df EXCEPT !.columns =
        [c \in DOMAIN df.columns |->
            IF df.columns[c].name = old
            THEN [df.columns[c] EXCEPT !.name = new]
            ELSE df.columns[c]]]

\* data_cleaner.py 108-113: the loop from position i on, over the labels the
\* dataframe had when the loop began; w is [df, self]
RECURSIVE RenameFrom(_, _, _)
RenameFrom(w, labels, i) ==
    IF i > Len(labels) THEN w
    ELSE IF IsUnnamed(labels[i])
    THEN LET new_name == "column_" \o Str(i - 1)
             renamed == [w.self EXCEPT !.columns_renamed =
                            (labels[i] :> new_name) @@ w.self.columns_renamed]
         IN  RenameFrom([Rebind(w, RenameLabel(w.df, labels[i], new_name))
                             EXCEPT !.self = _record_issue(renamed, "missing_header",
                                                           labels[i], 1)],
                        labels, i + 1)
    ELSE RenameFrom(w, labels, i + 1)

\* data_cleaner.py 106-116
_rename_unnamed_columns(w) ==
    LET done == RenameFrom(w, ColumnLabels(w.df), 1)
    IN  IF DOMAIN done.self.columns_renamed # {}
        THEN [done EXCEPT !.self = _record_step(done.self, "Renamed unnamed columns")]
        ELSE done

\* the number a numeral stands for, in halves; the fractions of the model's
\* numerals are .0 and .5
RECURSIVE NatOfDigits(_)
NatOfDigits(text) ==
    IF text = "" THEN 0
    ELSE 10 * NatOfDigits(SubSeq(text, 1, Len(text) - 1))
            + (IndexIn(Char(text, Len(text)), DigitChars) - 1)

HalvesOfText(text) ==
    LET dot == Find(text, ".")
    IN  IF dot = 0 THEN 2 * NatOfDigits(text)
        ELSE 2 * NatOfDigits(SubSeq(text, 1, dot - 1))
                + (IF IsIntegralText(text) THEN 0 ELSE 1)

\* pd.to_numeric(series, errors="coerce")
to_numeric_coerce(cells) ==
    [i \in DOMAIN cells |->
        IF cells[i].k = "str"
        THEN (IF IsNumberText(cells[i].s) THEN Num(HalvesOfText(cells[i].s)) ELSE Null)
        ELSE IF cells[i].k \in {"num", "bool"} THEN Num(cells[i].n)
        ELSE Null]

\* pd.to_datetime(series, errors="coerce")
to_datetime_coerce(cells) ==
    [i \in DOMAIN cells |->
        IF cells[i].k = "str"
        THEN (IF IsDateText(cells[i].s) THEN Date(cells[i].s) ELSE Null)
        ELSE IF cells[i].k = "date" THEN cells[i]
        ELSE Null]

\* the dtype of a numeric series
NumericDtype(cells) ==
    IF \A i \in DOMAIN cells : cells[i].k = "num" /\ cells[i].n % 2 = 0
    THEN "int64" ELSE "float64"

\* data_cleaner.py 124 and 131: the ratios 0.8 and 0.5, in percent
NumericRatioPct == 80
DatetimeRatioPct == 50

\* data_cleaner.py 124: len(df[col]) > 0 and notna().sum() / len(df[col]) > 0.8
NumericRatioReached(parsed, total) ==
    total > 0 /\ 100 * parsed > NumericRatioPct * total

\* data_cleaner.py 121-140: the loop body for the column at position c
StandardizeColumn(w, c) ==
    LET col == w.df.columns[c]
        numeric_series == to_numeric_coerce(col.cells)
        datetime_series == to_datetime_coerce(col.cells)
        invalid_count == NaCount(datetime_series)
    IN  IF col.dtype # "object" THEN w
        ELSE IF NumericRatioReached(NotNaCount(numeric_series), Len(col.cells))
        THEN [AssignColumn(w, c, NumericDtype(numeric_series), numeric_series)
                 EXCEPT !.self = _increment_metric(
                          _record_step(w.self, "Converted column '" \o col.name
                                                   \o "' to numeric"),
                          "numeric_conversions", NotNaCount(numeric_series))]
        ELSE IF Len(col.cells) > 0
                /\ 100 * NotNaCount(datetime_series) > DatetimeRatioPct * Len(col.cells)
        THEN [AssignColumn(w, c, "datetime64[ns]", datetime_series)
                 EXCEPT !.self = _increment_metric(
                          _record_step(
                              IF invalid_count > 0
                              THEN _record_issue(w.self, "invalid_datetime",
                                                 col.name, invalid_count)
                              ELSE w.self,
                              "Converted column '" \o col.name \o "' to datetime"),
                          "datetime_conversions", NotNaCount(datetime_series))]
        ELSE w

RECURSIVE StandardizeFrom(_, _)
StandardizeFrom(w, c) ==
    IF c > Len(w.df.columns) THEN w
    ELSE StandardizeFrom(StandardizeColumn(w, c), c + 1)

\* data_cleaner.py 118-141, for a dataframe with distinct labels
_standardize_data_types(w) == StandardizeFrom(w, 1)

\* the r-th smallest of the numbers of a sequence
KthSmallest(ns, r) ==
    CHOOSE v \in {ns[i] : i \in DOMAIN ns} :
        /\ Cardinality({i \in DOMAIN ns : ns[i] < v}) < r
        /\ r <= Cardinality({i \in DOMAIN ns : ns[i] <= v})

\* series.median(): the median of the non-null numbers, NaN when there is none
Median(cells) ==
    LET values == DropNa(cells)
        ns == [i \in DOMAIN values |-> values[i].n]
        m == Len(ns)
    IN  IF m = 0 THEN Null
        ELSE IF m % 2 = 1 THEN Num(KthSmallest(ns, (m + 1) \div 2))
        ELSE Num((KthSmallest(ns, m \div 2) + KthSmallest(ns, m \div 2 + 1)) \div 2)

\* series.mode(dropna=True): the most frequent texts, as a set
Modes(cells) ==
    LET texts == {cells[i].s : i \in {j \in DOMAIN cells : ~IsNull(cells[j])}}
        Count(t) == Cardinality({i \in DOMAIN cells : ~IsNull(cells[i]) /\ cells[i].s = t})
    IN  {t \in texts : \A u \in texts : Count(u) <= Count(t)}

\* mode_val.iloc[0] if not mode_val.empty else "Unknown": mode() is sorted
FillValue(cells) ==
    IF Modes(cells) = {} THEN "Unknown"
    ELSE CHOOSE t \in Modes(cells) : \A u \in Modes(cells) : u = t \/ TextLess(t, u)

\* series.fillna(value); fillna(NaN) changes nothing
FillNa(cells, value) ==
    [i \in DOMAIN cells |-> IF IsNull(cells[i]) THEN value ELSE cells[i]]

\* data_cleaner.py 146-178: the loop body for the column at position c
HandleMissingColumn(w, c) ==
    LET col == w.df.columns[c]
        missing_count == NaCount(col.cells)
        kept == {r \in 1..w.df.nrows : ~IsNull(col.cells[r])}
        rows_removed == w.df.nrows - Cardinality(kept)
        handled ==
            IF col.dtype \in {"int64", "float64"}
            THEN [AssignColumn(w, c, col.dtype, FillNa(col.cells, Median(col.cells)))
                     EXCEPT !.self = _increment_metric(
                              _record_issue(w.self, "missing_values", col.name, missing_count),
                              "filled_null_values", missing_count)]
            ELSE IF col.dtype = "object"
            THEN [AssignColumn(w, c, col.dtype,
                               FillNa(col.cells, Text(FillValue(col.cells))))
                     EXCEPT !.self = _increment_metric(
                              _record_issue(w.self, "missing_values", col.name, missing_count),
                              "filled_null_values", missing_count)]
            ELSE [Rebind(w, KeepRows(w.df, kept))
                     EXCEPT !.self = IF rows_removed > 0
                           THEN _increment_metric(
                                    _record_issue(w.self, "missing_values", col.name, rows_removed),
                                    "rows_dropped", rows_removed)
                           ELSE w.self]
    IN  IF missing_count = 0 THEN w
        ELSE [handled EXCEPT !.self =
                 _record_step(handled.self,
                              "Handled missing values in '" \o col.name \o "' ("
                                  \o Str(missing_count) \o " values)")]

RECURSIVE HandleMissingFrom(_, _)
HandleMissingFrom(w, c) ==
    IF c > Len(w.df.columns) THEN w
    ELSE HandleMissingFrom(HandleMissingColumn(w, c), c + 1)

\* data_cleaner.py 143-180
_handle_missing_values(w) == HandleMissingFrom(w, 1)

\* data_cleaner.py 185-196: the loop body for the column at position c
StandardizeDatesColumn(w, c) ==
    LET col == w.df.columns[c]
        converted == to_datetime_coerce(col.cells)
        invalid_count == NaCount(converted)
    IN  IF col.dtype = "object" /\ NotNaCount(converted) > 0
        THEN [AssignColumn(w, c, "datetime64[ns]", converted)
                 EXCEPT !.self = _increment_metric(
                          _record_step(
                              IF invalid_count > 0
                              THEN _record_issue(w.self, "invalid_datetime",
                                                 col.name, invalid_count)
                              ELSE w.self,
                              "Standardized date formats in '" \o col.name \o "'"),
                          "datetime_conversions", NotNaCount(converted))]
        ELSE w

RECURSIVE StandardizeDatesFrom(_, _)
StandardizeDatesFrom(w, c) ==
    IF c > Len(w.df.columns) THEN w
    ELSE StandardizeDatesFrom(StandardizeDatesColumn(w, c), c + 1)

\* data_cleaner.py 182-197
_standardize_dates(w) == StandardizeDatesFrom(w, 1)

\* df.drop_duplicates(): the rows kept, the first of each group of equal
\* rows; a dataframe without rows or without columns is returned as it is
FirstOccurrences(df) ==
    IF df.nrows = 0 \/ Len(df.columns) = 0 THEN 1..df.nrows
    ELSE {r \in 1..df.nrows : \A q \in 1..(r - 1) : Row(df, q) # Row(df, r)}

\* the variant of lines 199-208 that does not count the removed rows
RemoveDuplicatesUncounted(w) ==
    Rebind(w, KeepRows(w.df, FirstOccurrences(w.df)))

\* data_cleaner.py 199-208
_remove_duplicates(w) ==
    LET removed == w.df.nrows - Cardinality(FirstOccurrences(w.df))
    IN  IF removed > 0
        THEN [Rebind(w, KeepRows(w.df, FirstOccurrences(w.df)))
                 EXCEPT !.self = _increment_metric(
                          _record_step(
                              _record_issue(w.self, "duplicates", "", removed),
                              "Removed duplicate rows"),
                          "duplicates_removed", removed)]
        ELSE Rebind(w, w.df)

\* value.strip() if isinstance(value, str) else value
Trimmed(cell) == IF cell.k = "str" THEN Text(Strip(cell.s)) ELSE cell

\* data_cleaner.py 213-220: the loop body for the column at position c
StandardizeTextColumn(w, c) ==
    LET col == w.df.columns[c]
        trimmed_series == [i \in DOMAIN col.cells |-> Trimmed(col.cells[i])]
        changes == Cardinality({i \in DOMAIN col.cells : trimmed_series[i] # col.cells[i]})
    IN  IF col.dtype = "object" /\ changes > 0
        THEN [AssignColumn(w, c, col.dtype, trimmed_series)
                 EXCEPT !.self = _increment_metric(
                          _record_step(w.self, "Trimmed text values in '" \o col.name
                                                   \o "' (" \o Str(changes) \o " cells updated)"),
                          "text_standardized", changes)]
        ELSE w

RECURSIVE StandardizeTextFrom(_, _)
StandardizeTextFrom(w, c) ==
    IF c > Len(w.df.columns) THEN w
    ELSE StandardizeTextFrom(StandardizeTextColumn(w, c), c + 1)

\* data_cleaner.py 210-221
_standardize_text(w) == StandardizeTextFrom(w, 1)

\* sum(d.values()) of a dict d
RECURSIVE SumValues(_)
SumValues(d) ==
    IF DOMAIN d = {} THEN 0
    ELSE LET key == CHOOSE k \in DOMAIN d : TRUE
         IN  d[key] + SumValues([k \in DOMAIN d \ {key} |-> d[k]])

\* round(x, 4) is kept as the number of ten-thousandths
ScoreScale == 10000

\* num / den rounded to the nearest integer, halves to the even one
RoundHalfEven(num, den) ==
    LET q == num \div den
        r == num % den
    IN  IF 2 * r > den THEN q + 1
        ELSE IF 2 * r < den THEN q
        ELSE IF q % 2 = 0 THEN q ELSE q + 1

\* the variant of the score without the floor at 0.0
QualityScoreUnfloored(total_issues, total_cells) ==
    IF total_cells > 0
    THEN RoundHalfEven(ScoreScale * (total_cells - total_issues), total_cells)
    ELSE 0

\* the variant of the score with the integer division total_issues // total_cells
QualityScoreFloorDiv(total_issues, total_cells) ==
    IF total_cells > 0
    THEN ScoreScale * Max({0, 1 - (total_issues \div total_cells)})
    ELSE 0

\* data_cleaner.py 58-60 and 73:
\* round(max(0.0, 1.0 - total_issues / total_cells) if total_cells > 0 else 0.0, 4)
QualityScore(total_issues, total_cells) ==
    IF total_cells > 0
    THEN RoundHalfEven(ScoreScale * Max({0, total_cells - total_issues}), total_cells)
    ELSE 0

\* data_cleaner.py 51-76: the metadata of the call; cleaned_at is left out
Metadata(w) ==
    LET cleaned_row_count == w.df.nrows
        cleaned_col_count == Len(w.df.columns)
        original_row_count == w.self.original_shape[1]
        original_col_count == w.self.original_shape[2]
        total_cells == original_row_count * Max({original_col_count, 1})
        total_issues == SumValues(w.self.issue_summary)
    IN  [original_row_count |-> original_row_count,
         original_column_count |-> original_col_count,
         cleaned_row_count |-> cleaned_row_count,
         cleaned_column_count |-> cleaned_col_count,
         rows_removed |-> Max({original_row_count - cleaned_row_count, 0}),
         columns_renamed |-> w.self.columns_renamed,
         issues |-> w.self.issues,
         issue_summary |-> w.self.issue_summary,
         cleaning_steps |-> w.self.cleaning_steps,
         metrics |-> w.self.metrics,
         quality_score |-> QualityScore(total_issues, total_cells),
         cells_modified |-> SumValues(w.self.metrics)]

\* data_cleaner.py 13-18: the instance after construction.  The objects that
\* the attributes issues, cleaning_steps, issue_summary, metrics and
\* columns_renamed refer to during one call are one entry of objects; bound
\* is the entry the attributes refer to now.
__init__ ==
    [objects |-> <<[issues |-> <<>>, cleaning_steps |-> <<>>, issue_summary |-> <<>>,
                    metrics |-> <<>>, columns_renamed |-> <<>>]>>,
     bound |-> 1]

\* the variant of lines 81-93 that empties the objects of the instance in
\* place (self.issues.clear(), ...)
ResetStateInPlace(inst, df) ==
    [inst EXCEPT !.objects[inst.bound] = _reset_state(df)]

\* data_cleaner.py 81-93 on the instance: every attribute is assigned a new
\* object
BindResetState(inst, df) ==
    [objects |-> Append(inst.objects, _reset_state(df)),
     bound |-> Len(inst.objects) + 1]

\* data_cleaner.py 30: working_df = df.copy() is a new frame object
df_copy(df) == [df |-> df, is_input |-> FALSE]

\* data_cleaner.py 121: the call ends with the exception
CleanRaised(renamed) ==
    [outcome |-> "AttributeError", renamed |-> renamed,
     self |-> renamed.self, made |-> renamed.made]

\* data_cleaner.py 60-78: the cleaned dataframe and the report
CleanReturned(renamed, typed, filled, done) ==
    [outcome |-> "returned", df |-> done.df, metadata |-> Metadata(done),
     renamed |-> renamed, typed |-> typed, filled |-> filled,
     self |-> done.self, made |-> done.made]

\* data_cleaner.py 33-78.  With two equal labels df[col] is a DataFrame, and
\* df[col].dtype (line 121) raises AttributeError.  The result also keeps
\* the working dataframe and the instance state after the first three steps.
CleanSteps(w) ==
    LET renamed == _rename_unnamed_columns(w)
        typed == _standardize_data_types(renamed)
        filled == _handle_missing_values(typed)
        done == _standardize_text(_remove_duplicates(_standardize_dates(filled)))
    IN  IF HasDuplicateLabels(renamed.df)
        THEN CleanRaised(renamed)
        ELSE CleanReturned(renamed, typed, filled, done)

\* what a call leaves behind: the instance, the result and the frames
CallReturned(reset, result, working_df, df) ==
    [inst |-> [reset EXCEPT !.objects[reset.bound] = result.self],
     result |-> result,
     ref |-> reset.bound,
     input |-> IF working_df.is_input THEN result.made ELSE df]

\* data_cleaner.py 33-78 on the copy working_df, after the reset of line 31
CleanOnFrame(reset, working_df, df) ==
    CallReturned(reset,
                 CleanSteps([df |-> working_df.df, self |-> reset.objects[reset.bound],
                             own |-> TRUE, made |-> working_df.df]),
                 working_df, df)

\* data_cleaner.py 20-78 on the instance inst: the instance after the call,
\* the result, the entry of objects that the returned report refers to, and
\* the caller's frame object after the call
CleanOnInstance(inst, df) ==
    CleanOnFrame(BindResetState(inst, df_copy(df).df), df_copy(df), df)

\* data_cleaner.py 20-78 on a new instance
clean(df) == CleanOnInstance(__init__, df).result

\* Input tables of the model.
\* (1) Tables with up to MaxCleanColumns object columns under any headers of
\*     HeaderNames, equal ones included, and no row or one row.
MaxCleanColumns == 3
HeaderNames == {"", " ", "Unnamed: 0", "name", "column_0"}

ObjectColumn(name, cells) == [name |-> name, dtype |-> "object", cells |-> cells]

HeaderColumns(nrows) ==
    {ObjectColumn(name, cells) :
        name \in HeaderNames, cells \in [1..nrows -> {Null, Text("x")}]}

HeaderTables ==
    UNION {{[nrows |-> nrows, columns |-> columns] :
                columns \in [1..n -> HeaderColumns(nrows)]} :
              n \in 0..MaxCleanColumns, nrows \in {0, 1}}

\* (2) Tables with one or two named columns and up to MaxCleanRows rows; a
\*     column holds texts, dates or numbers, and nulls.
MaxCleanRows == 2
RowNames == <<"name", "joined">>
ObjectCells == {Null, Text("apple"), Text("apple "), Text("2023-01-05")}
DateCells == {Null, Date("2023-01-05")}
NumberCells == {Null, Num(2), Num(8)}

RowColumns(name, nrows) ==
    {ObjectColumn(name, cells) : cells \in [1..nrows -> ObjectCells]}
        \cup {[name |-> name, dtype |-> "datetime64[ns]", cells |-> cells] :
                cells \in [1..nrows -> DateCells]}
        \cup {[name |-> name, dtype |-> NumericDtype(cells), cells |-> cells] :
                cells \in [1..nrows -> NumberCells]}

RowTables ==
    UNION {{[nrows |-> nrows, columns |-> columns] :
                columns \in {cs \in [1..n -> UNION {RowColumns(RowNames[c], nrows) : c \in 1..n}] :
                                \A c \in 1..n : cs[c].name = RowNames[c]}} :
              n \in 1..Len(RowNames), nrows \in 0..MaxCleanRows}

\* (3) Tables with one object column of up to MaxCoerceRows cells: numerals,
\*     then other texts, then nulls.
MaxCoerceRows == 6

CoerceTables ==
    {[nrows |-> ns[1] + ns[2] + ns[3],
      columns |-> <<ObjectColumn("amount",
                        [i \in 1..ns[1] |-> Text(Str(i))]
                            \o [i \in 1..ns[2] |-> Text("N/A")]
                            \o [i \in 1..ns[3] |-> Null])>>] :
        ns \in {t \in (0..MaxCoerceRows) \X (0..MaxCoerceRows) \X (0..MaxCoerceRows) :
                  t[1] + t[2] + t[3] \in 1..MaxCoerceRows}}

\* (4) Tables of MaxCleanRows + 1 rows with a datetime column and a text
\*     column, so that one call can drop a row and remove a duplicate.
DropTables ==
    {[nrows |-> MaxCleanRows + 1,
      columns |-> <<[name |-> "joined", dtype |-> "datetime64[ns]", cells |-> dates],
                    ObjectColumn("name", texts)>>] :
        dates \in [1..(MaxCleanRows + 1) -> DateCells],
        texts \in [1..(MaxCleanRows + 1) -> {Text("apple"), Text("pear")}]}

CleanTables == HeaderTables \cup RowTables \cup CoerceTables \cup DropTables

\* the one-row tables with one or two columns headed "" or "name"
PairTables ==
    {t \in HeaderTables :
        /\ t.nrows = 1
        /\ Len(t.columns) \in {1, 2}
        /\ \A c \in DOMAIN t.columns : t.columns[c].name \in {"", "name"}}

NoFrame == [nrows |-> 0, columns |-> <<>>]

\* the record of a first call: what it returned, the instance after it and
\* the caller's frame
FirstCall(f, returned) ==
    [f EXCEPT !.fn = "clean", !.result = returned.result,
              !.inst = returned.inst, !.ref = returned.ref,
              !.input = returned.input]

\* the record of a second call, named fn, on the table arg2
SecondCall(f, fn, arg2, returned) ==
    [f EXCEPT !.fn = fn, !.arg2 = arg2, !.result2 = returned.result,
              !.inst = returned.inst, !.ref2 = returned.ref,
              !.input2 = returned.input]

\* the first call of data_cleaner.clean in the process
clean_call ==
    /\ fcall.fn = "pending"
    /\ fcall' = FirstCall(fcall, CleanOnInstance(fcall.inst, fcall.arg))
    /\ UNCHANGED <<uploadVars, gateVars, colVars>>

\* a second call of data_cleaner.clean, on the table the first call returned
clean_again ==
    /\ fcall.fn = "clean"
    /\ fcall.result.outcome = "returned"
    /\ fcall' = SecondCall(fcall, "clean_again", fcall.result.df,
                            CleanOnInstance(fcall.inst, fcall.result.df))
    /\ UNCHANGED <<uploadVars, gateVars, colVars>>

\* a second call of data_cleaner.clean, on another table
clean_other(table) ==
    /\ fcall.fn = "clean"
    /\ fcall.arg \in PairTables
    /\ fcall' = SecondCall(fcall, "clean_other", table,
                            CleanOnInstance(fcall.inst, table))
    /\ UNCHANGED <<uploadVars, gateVars, colVars>>

\* data_cleaner.py 225: the instance of the process is constructed at import
InitClean ==
    fcall \in [fn : {"pending"}, arg : CleanTables, result : {[outcome |-> "none"]},
               arg2 : {NoFrame}, result2 : {[outcome |-> "none"]},
               inst : {__init__}, ref : {0}, ref2 : {0},
               input : {NoFrame}, input2 : {NoFrame}]

NextClean ==
    \/ clean_call
    \/ clean_again
    \/ \E table \in PairTables : clean_other(table)

InitCleanSpec == InitUpload /\ InitGateIdle /\ InitColsIdle /\ InitClean

SpecClean == InitCleanSpec /\ [][NextClean]_vars

(***************************************************************************)
(* excel_processor.py: the sheet names of process_excel_file.  The dict    *)
(* of the processed sheets is a sequence of [key, value] in insertion      *)
(* order; the value is the position of the sheet the entry was built from. *)
(***************************************************************************)
DictKeys(dict) == [i \in DOMAIN dict |-> dict[i].key]

HasKey(dict, key) == \E i \in DOMAIN dict : dict[i].key = key

\* dict[key] = value: a present key keeps its place and gets the value
DictSet(dict, key, value) ==
    IF HasKey(dict, key)
    THEN [i \in DOMAIN dict |-> IF dict[i].key = key
                                THEN [key |-> key, value |-> value] ELSE dict[i]]
    ELSE Append(dict, [key |-> key, value |-> value])

\* excel_processor.py 52-54
ResolveSheetName(raw_sheet_name, idx, processed) ==
    LET sheet_name == IF raw_sheet_name = "" THEN "Sheet" \o Str(idx + 1)
                      ELSE raw_sheet_name
    IN  IF HasKey(processed, sheet_name)
        THEN sheet_name \o "_" \o Str(idx + 1)
        ELSE sheet_name

\* excel_processor.py 51-86: the loop from the sheet at position idx on
RECURSIVE NameSheetsFrom(_, _, _)
NameSheetsFrom(raw_sheet_names, idx, processed) ==
    IF idx >= Len(raw_sheet_names) THEN processed
    ELSE NameSheetsFrom(raw_sheet_names, idx + 1,
            DictSet(processed,
                    ResolveSheetName(raw_sheet_names[idx + 1], idx, processed),
                    idx))

\* excel_processor.py 105-126: the entries of the result that list the sheets
SheetListing(raw_sheet_names) ==
    LET processed == NameSheetsFrom(raw_sheet_names, 0, <<>>)
    IN  [processed_sheets |-> processed,
         sheet_names |-> DictKeys(processed),
         total_sheets |-> Len(processed)]

\* Workbooks of up to MaxSheetNames sheets; the keys of excel_data are
\* distinct.
MaxSheetNames == 3
RawSheetNames == {"", "Data", "Sheet2", "Sheet2_2", "Sheet3", "Sheet3_3"}

SheetNameLists ==
    UNION {{names \in [1..n -> RawSheetNames] :
                \A i, j \in 1..n : i # j => names[i] # names[j]} :
              n \in 1..MaxSheetNames}

process_sheet_names_call ==
    /\ fcall.fn = "pending"
    /\ fcall' = [fcall EXCEPT !.fn = "process_excel_file",
                              !.result = SheetListing(fcall.arg)]
    /\ UNCHANGED <<uploadVars, gateVars, colVars>>

InitSheetNames ==
    fcall \in [fn : {"pending"}, arg : SheetNameLists,
               result : {[processed_sheets |-> <<>>, sheet_names |-> <<>>,
                          total_sheets |-> 0]}]

NextSheetNames == process_sheet_names_call

InitSheetNamesSpec == InitUpload /\ InitGateIdle /\ InitColsIdle /\ InitSheetNames

SpecSheetNames == InitSheetNamesSpec /\ [][NextSheetNames]_vars

(***************************************************************************)
(* The tables of an upload behind the gate: the physical table name that   *)
(* upload_file generates for a sheet, and the queries that name it.        *)
(***************************************************************************)
\* excel_processor.py 303-311: the schema's base_table_name; a non-empty name
\* sanitizes to a non-empty text, so the random fallback of 304-305 is not
\* taken
base_table_name(sheet_name) ==
    sanitize_table_name(IF sheet_name = "" THEN "sheet" ELSE sheet_name)

\* main.py 514-520: the table of the sheet at position idx of the upload that
\* was given the id file_id
GeneratedTableName(file_id, idx, sheet_name) ==
    unique_table_name(file_id, idx, base_table_name(sheet_name))

\* the read query on a table
SelectAllQuery(table_name) == "SELECT * FROM " \o table_name

\* sql_generator.py 82, 86
FallbackQuery(table_name) == "SELECT * FROM " \o table_name \o " LIMIT 10;"

\* Sheet names of the uploaded workbooks.
UploadSheetNames ==
    {"Orders", "Sheet1", "Q1 Sales", "2024", "data", "Customers", "Updates",
     "Call Log", "Executive Summary", "Dropped Items"}

\* the read query on the generated table goes through _sanitize_sql
select_all_call ==
    /\ fcall.fn = "pending"
    /\ LET table_name == GeneratedTableName(fcall.file_id, fcall.idx, fcall.sheet_name)
       IN  fcall' = [fcall EXCEPT !.fn = "select_all",
                                  !.table_name = table_name,
                                  !.sql = SelectAllQuery(table_name),
                                  !.result = _sanitize_sql(SelectAllQuery(table_name))]
    /\ UNCHANGED <<uploadVars, gateVars, colVars>>

\* the generator's fallback query on the generated table goes through
\* _sanitize_sql
fallback_query_call ==
    /\ fcall.fn = "pending"
    /\ LET table_name == GeneratedTableName(fcall.file_id, fcall.idx, fcall.sheet_name)
       IN  fcall' = [fcall EXCEPT !.fn = "fallback_query",
                                  !.table_name = table_name,
                                  !.sql = FallbackQuery(table_name),
                                  !.result = _sanitize_sql(FallbackQuery(table_name))]
    /\ UNCHANGED <<uploadVars, gateVars, colVars>>

InitTables ==
    fcall \in [fn : {"pending"}, sheet_name : UploadSheetNames,
               file_id : 1..MaxUploads, idx : 0..(MaxSheets - 1),
               table_name : {""}, sql : {""}, result : {NoResult}]

NextTables == select_all_call \/ fallback_query_call

InitTablesSpec == InitUpload /\ InitGateIdle /\ InitColsIdle /\ InitTables

SpecTables == InitTablesSpec /\ [][NextTables]_vars

(***************************************************************************)
(* Claims about upload_file, delete_file and the materializer.             *)
(***************************************************************************)

\* C1: when upload_file reports the failure of create_dynamic_table_from_schema
\* or insert_dataframe_to_table for sheet k, no table of that workbook
\* (sheets before k, sheet k's own table) exists in storage.
C1_FailedUploadLeavesNoTable ==
    (response.op = "upload" /\ response.detail = "materialization")
        => \A t \in response.tables : t \notin DOMAIN tables

\* C2: the physical table names never collide: no table ever holds rows
\* loaded from two different sheets (of the same or of different uploads),
\* and a materialization that succeeds has created a table that did not
\* exist before.
C2_TableNamesNeverCollide ==
    /\ [](\A t \in DOMAIN tables : \A i, j \in DOMAIN tables[t] :
            /\ tables[t][i].data[1] = tables[t][j].data[1]
            /\ tables[t][i].data[2] = tables[t][j].data[2])
    /\ [][(pc = "create" /\ pc' = "insert") => CurrentTable \notin DOMAIN tables]_vars

\* C3: create_dynamic_table_from_schema and insert_dataframe_to_table execute
\* their statement at most 3 times per call; an attempt is repeated only
\* after a "database is locked" failure; a success returns at once; a locked
\* failure on the third attempt is raised; a call that has not ended has
\* attempts left and the handler is placed to make the next one.
C3_AtMostThreeAttempts ==
    call.fn # "none" =>
        LET n == Len(call.resps)
        IN  /\ n <= 3
            /\ \A i \in 1..(n - 1) : call.resps[i] = "locked"
            /\ call.outcome = "returned" <=> (n > 0 /\ call.resps[n] = "ok")
            /\ (n = 3 /\ call.resps[n] = "locked") => call.outcome = "raised"
            /\ call.outcome = "running" =>
                    /\ n < 3
                    /\ pc = call.fn
                    /\ \A resp \in StorageResponses :
                            ENABLED (CreateTableAttempt(resp) \/ InsertAttempt(resp))

C3_Witness ==
    /\ call.fn = "insert"
    /\ call.resps = <<"locked", "locked", "locked">>
    /\ call.outcome = "raised"

\* C4: a failure that is not a locked failure is raised to the caller after
\* the attempt it occurs on, whichever attempt that is: no attempt follows
\* it and the call has slept only after the locked failures before it.
C4_OtherFailureIsFatal ==
    call.fn # "none" =>
        \A i \in 1..Len(call.resps) :
            call.resps[i] = "error" =>
                /\ i = Len(call.resps)
                /\ call.outcome = "raised"
                /\ Len(call.sleeps) = i - 1
                /\ pc = "idle"

C4_Witness ==
    /\ call.fn = "create"
    /\ call.resps = <<"locked", "error">>
    /\ call.outcome = "raised"

(***************************************************************************)
(* Claims about the query gate.                                            *)
(***************************************************************************)
OccursAt(s, tok, i) == i + Len(tok) - 1 <= Len(s) /\ SubSeq(s, i, i + Len(tok) - 1) = tok

Occurs(s, tok) == \E i \in 1..Len(s) : OccursAt(s, tok, i)

BeginsWithSelectWord(sql) ==
    LET t == Strip(sql)
    IN  /\ Len(t) >= 6
        /\ Upper(SubSeq(t, 1, 6)) = "SELECT"
        /\ Len(t) > 6 => Char(t, 7) \notin WordChars

HasForbiddenKeyword(sql) ==
    \E kw \in {"INSERT", "UPDATE", "DELETE", "DROP", "ALTER", "TRUNCATE", "MERGE",
               "CALL", "EXEC", "PRAGMA"} : Occurs(Upper(Strip(sql)), kw)

GateErrors == {"Only SELECT statements are allowed", "Forbidden SQL operation detected"}

SanitizeReturned == gate.fn = "_sanitize_sql" /\ gate.result.ok

\* C5: _sanitize_sql raises exactly when the trimmed input does not begin
\* with the word SELECT (any case) or its upper-cased text contains one of the
\* ten forbidden keywords as a substring; otherwise it returns a text.
C5_RejectsExactlyUnsafe ==
    gate.fn = "_sanitize_sql" =>
        /\ ~gate.result.ok <=>
              (~BeginsWithSelectWord(gate.sql) \/ HasForbiddenKeyword(gate.sql))
        /\ ~gate.result.ok => gate.result.error \in GateErrors
        /\ gate.result.ok => Len(gate.result.text) > 0

C5_Witness ==
    /\ gate.fn = "_sanitize_sql"
    /\ gate.sql = "select id; delete from t"
    /\ ~gate.result.ok

\* C6: every text returned by _sanitize_sql contains a LIMIT clause (the
\* input's own or the appended LIMIT 200), also for inputs with comments.
C6_ReturnedTextHasLimit ==
    SanitizeReturned => Occurs(Upper(gate.result.text), "LIMIT")

\* C7: every text returned by _sanitize_sql is a single statement: nothing
\* but separators and whitespace follows a ';' in it.
C7_ReturnedTextIsSingleStatement ==
    SanitizeReturned =>
        \A i \in 1..Len(gate.result.text) :
            Char(gate.result.text, i) = ";" =>
                \A j \in (i + 1)..Len(gate.result.text) :
                    Char(gate.result.text, j) \in {";", " ", "\t", "\n", "\r"}

MarkerPositions(s) ==
    {i \in 1..Len(s) : \E m \in {"--", "/*", "//"} : OccursAt(s, m, i)}

\* the trimmed prefix of the input before its earliest comment marker
ExecutablePrefix(sql) ==
    IF MarkerPositions(sql) = {} THEN Strip(sql)
    ELSE Strip(SubSeq(sql, 1,
            (CHOOSE i \in MarkerPositions(sql) : \A j \in MarkerPositions(sql) : i <= j) - 1))

\* C8: the text returned by _sanitize_sql is, before the limit suffix, the
\* trimmed prefix of the input that precedes its earliest comment marker
\* (a trailing ';' may go with the appended limit), and contains no marker.
C8_TruncatedAtEarliestMarker ==
    SanitizeReturned =>
        LET prefix == ExecutablePrefix(gate.sql)
        IN  /\ gate.result.text \in {prefix, prefix \o " LIMIT 200",
                                     RStripChar(prefix, ";") \o " LIMIT 200"}
            /\ MarkerPositions(gate.result.text) = {}

\* C9: execute_sql hands a statement to the engine only when the gate has
\* accepted the same input, and then the one derived from the gate's text;
\* when the gate rejects, the gate's error is raised and nothing is executed.
C9_ExecutesOnlyAcceptedQueries ==
    gate.fn = "execute_sql" =>
        IF BeginsWithSelectWord(gate.sql) /\ ~HasForbiddenKeyword(gate.sql)
        THEN executed = <<TableSubstituted(_sanitize_sql(gate.sql).text, gate.table_name)>>
        ELSE /\ executed = <<>>
             /\ gate.outcome = "raised"
             /\ gate.error \in GateErrors

C9_Witness ==
    /\ gate.fn = "execute_sql"
    /\ gate.sql = "SELECT * FROM t; DELETE FROM t"
    /\ gate.outcome = "raised"
    /\ executed = <<>>

(***************************************************************************)
(* Claims about the column mappings.                                       *)
(***************************************************************************)
\* the sanitized form _build_column_mappings starts from for column i
SanitizedForm(columns, i) ==
    IF sanitize_column_name(columns[i]) = "" THEN "column_" \o Str(i - 1)
    ELSE sanitize_column_name(columns[i])

\* C10: for pairwise distinct column names _build_column_mappings returns
\* pairwise distinct sanitized names; among columns whose sanitized forms
\* collide the first keeps the unsuffixed form and the k-th later one gets
\* the suffix _k.
C10_MappingsAreDistinct ==
    colcall.fn = "_build_column_mappings" =>
        LET cs == colcall.columns
            ms == colcall.mappings
        IN  /\ Len(ms) = Len(cs)
            /\ \A i, j \in DOMAIN ms : i # j => ms[i] # ms[j]
            /\ \A i \in DOMAIN ms :
                  LET k == Cardinality({j \in 1..(i - 1) :
                               SanitizedForm(cs, j) = SanitizedForm(cs, i)})
                  IN  ms[i] = IF k = 0 THEN SanitizedForm(cs, i)
                              ELSE SanitizedForm(cs, i) \o "_" \o Str(k)

(***************************************************************************)
(* Claims about the identifiers of the materialized schema.                *)
(***************************************************************************)
\* a well-formed identifier: non-empty, begins with a lower-case letter or an
\* underscore, has no upper-case letter, at most MaxIdentifierLength long
WellFormedIdentifier(name) ==
    /\ name # ""
    /\ Char(name, 1) \in CharsOf(LowerLetters) \cup {"_"}
    /\ Lower(name) = name
    /\ Len(name) <= MaxIdentifierLength

\* C11: every sanitized column name that _build_column_mappings hands to the
\* schema is non-empty, begins with a letter or an underscore, is lower-case
\* and is at most 63 characters long, the names that received a collision
\* suffix included.
C11_SchemaNamesWellFormed ==
    colcall.fn = "_build_column_mappings"
        => \A i \in DOMAIN colcall.mappings :
              WellFormedIdentifier(colcall.mappings[i])

\* the prefix the sanitizer of the latest call puts before a leading digit
DigitPrefix == IF fcall.fn = "sanitize_table_name" THEN "t_" ELSE "col_"

\* C12: sanitize_column_name and sanitize_table_name return a text made only
\* of a-z, 0-9 and _, at most 63 characters long, that begins with a letter
\* or an underscore when it is non-empty (a name with a leading digit gets the
\* prefix col_, respectively t_), and that is empty only for the empty input.
C12_SanitizedNameIsIdentifier ==
    fcall.fn \in {"sanitize_column_name", "sanitize_table_name"}
        => LET name == fcall.arg
               out == fcall.result
           IN  /\ \A i \in 1..Len(out) :
                     Char(out, i) \in CharsOf(LowerLetters)
                                        \cup CharsOf(DigitChars) \cup {"_"}
               /\ Len(out) <= MaxIdentifierLength
               /\ out # "" => Char(out, 1) \in CharsOf(LowerLetters) \cup {"_"}
               /\ (name # "" /\ Char(name, 1) \in CharsOf(DigitChars))
                     => StartsWith(out, DigitPrefix \o Char(name, 1))
               /\ (out = "") <=> (name = "")

\* a sheet name with a leading digit, longer than the limit, was sanitized
C12_Witness ==
    /\ fcall.fn = "sanitize_table_name"
    /\ fcall.arg # ""
    /\ Char(fcall.arg, 1) = "1"
    /\ Len(fcall.arg) > MaxIdentifierLength
    /\ Len(fcall.result) = MaxIdentifierLength
    /\ StartsWith(fcall.result, "t_1")

(***************************************************************************)
(* Claims about the inferred column types.                                 *)
(***************************************************************************)
\* the column types of the data model
SqlTypes == {"INTEGER", "FLOAT", "BOOLEAN", "DATETIME", "TEXT"}

\* C16: every column type that _infer_schema writes into a schema, through
\* _map_series_to_sql_type, is one of INTEGER, FLOAT, BOOLEAN, DATETIME, TEXT.
C16_SchemaTypesAreSqlTypes ==
    fcall.fn = "_infer_schema"
        => \A i \in DOMAIN fcall.result : fcall.result[i].type \in SqlTypes

\* the decision procedure on the non-null values, first match winning
BooleanLike(values) ==
    /\ \A i \in DOMAIN values : InBooleanList(values[i])
    /\ Cardinality(Unique(values)) <= 2

AllNumbers(values) == \A i \in DOMAIN values : ParsesAsNumber(values[i])

AllIntegral(values) ==
    \A i \in DOMAIN values : values[i].k # "inf" /\ IsIntegral(values[i])

AllDates(values) ==
    \A i \in DOMAIN values : values[i].k = "str" /\ IsDateText(values[i].s)

DecidedType(column) ==
    LET values == DropNa(column)
    IN  IF values = <<>> THEN "TEXT"
        ELSE IF BooleanLike(values) THEN "BOOLEAN"
        ELSE IF AllNumbers(values)
             THEN (IF AllIntegral(values) THEN "INTEGER" ELSE "FLOAT")
        ELSE IF AllDates(values) THEN "DATETIME"
        ELSE "TEXT"

DecidedNullable(column) ==
    DropNa(column) = <<>> \/ \E i \in DOMAIN column : IsNull(column[i])

\* C17: detect_column_type returns the type of the decision procedure
\* (BOOLEAN, else INTEGER / FLOAT, else DATETIME, else TEXT, on the non-null
\* values; TEXT and nullable for an empty or all-null column) and nullable
\* is true iff the column holds a null.
C17_DetectFollowsDecisionProcedure ==
    fcall.fn = "detect_column_type"
        => /\ fcall.result.outcome = "returned"
           /\ fcall.result.type = DecidedType(fcall.arg)
           /\ fcall.result.nullable = DecidedNullable(fcall.arg)

\* C18: inserting nulls into a column never changes the outcome and the
\* type of detect_column_type; only the nullable flag may differ.
C18_TypeUnchangedByAddedNulls ==
    fcall.fn = "detect_column_type"
        => /\ fcall.result.outcome = fcall.first.outcome
           /\ fcall.result.type = fcall.first.type

\* nulls were inserted into an INTEGER column that had none
C18_Witness ==
    /\ fcall.fn = "detect_column_type"
    /\ fcall.nulls = 2
    /\ fcall.first = [outcome |-> "returned", type |-> "INTEGER", nullable |-> FALSE]
    /\ fcall.result = [outcome |-> "returned", type |-> "INTEGER", nullable |-> TRUE]

(***************************************************************************)
(* Claims about DataCleaner.clean.                                         *)
(***************************************************************************)
\* the calls of clean made so far have returned
FirstReturned ==
    fcall.fn \in {"clean", "clean_again", "clean_other"}
        /\ fcall.result.outcome = "returned"

SecondReturned ==
    fcall.fn \in {"clean_again", "clean_other"} /\ fcall.result2.outcome = "returned"

TotalCells(metadata) ==
    metadata.original_row_count * Max({metadata.original_column_count, 1})

TotalIssues(metadata) == Len(metadata.issues)

\* C13: cleaning the table that clean returned removes no row as a
\* duplicate: the second call returns, its duplicates_removed metric is 0 and
\* it records no duplicates issue.
C13_RecleaningRemovesNoDuplicate ==
    fcall.fn = "clean_again"
        => /\ fcall.result2.outcome = "returned"
           /\ fcall.result2.metadata.metrics.duplicates_removed = 0
           /\ "duplicates" \notin DOMAIN fcall.result2.metadata.issue_summary

\* C14: the quality_score of every report that clean returns lies in [0, 1],
\* also for a table without rows or without columns and for a table with
\* more recorded issues than cells.
C14_QualityScoreInUnitInterval ==
    /\ FirstReturned
          => fcall.result.metadata.quality_score \in 0..ScoreScale
    /\ SecondReturned
          => fcall.result2.metadata.quality_score \in 0..ScoreScale

\* clean returned a report with more issues than cells, scored 0
C14_Witness ==
    /\ FirstReturned
    /\ TotalIssues(fcall.result.metadata) > TotalCells(fcall.result.metadata)
    /\ TotalCells(fcall.result.metadata) > 0
    /\ fcall.result.metadata.quality_score = 0

UnnamedPositions(df) == {i \in DOMAIN df.columns : IsUnnamed(df.columns[i].name)}

\* C19: after header repair the column at position i (counted from 0) whose
\* header was empty, all-whitespace or began with "Unnamed:" is named
\* column_i, one missing_header issue is recorded for each such column,
\* columns_renamed maps its old name to column_i, every other column keeps
\* its name, and a cleaned table that clean returns carries these names.
C19_UnnamedColumnsRenamedByPosition ==
    fcall.fn = "clean"
        => LET old == ColumnLabels(fcall.arg)
               repaired == fcall.result.renamed
               new == ColumnLabels(repaired.df)
           IN  /\ \A i \in DOMAIN old :
                     IF IsUnnamed(old[i])
                     THEN /\ new[i] = "column_" \o Str(i - 1)
                          /\ old[i] \in DOMAIN repaired.self.columns_renamed
                          /\ repaired.self.columns_renamed[old[i]] = new[i]
                     ELSE new[i] = old[i]
               /\ Cardinality({j \in DOMAIN repaired.self.issues :
                                  repaired.self.issues[j].type = "missing_header"})
                     = Cardinality(UnnamedPositions(fcall.arg))
               /\ fcall.result.outcome = "returned"
                     => /\ ColumnLabels(fcall.result.df) = new
                        /\ fcall.result.metadata.columns_renamed
                              = repaired.self.columns_renamed

\* the object columns of the table that the type-coercion step received
TextualColumns(result) ==
    {c \in DOMAIN result.renamed.df.columns :
        result.renamed.df.columns[c].dtype = "object"}

\* the number of cells of the column that parse as numbers
ParsedCount(cells) ==
    Cardinality({i \in DOMAIN cells : cells[i].k = "str" /\ IsNumberText(cells[i].s)})

\* the type-coercion step made the column numeric: the cells that parse hold
\* their number, all others are null, and no row was dropped
ConvertedToNumeric(result, c) ==
    LET before == result.renamed.df.columns[c].cells
        after == result.typed.df.columns[c]
    IN  /\ after.dtype \in {"int64", "float64"}
        /\ result.typed.df.nrows = result.renamed.df.nrows
        /\ \A i \in DOMAIN before :
              IF before[i].k = "str" /\ IsNumberText(before[i].s)
              THEN after.cells[i] = Num(HalvesOfText(before[i].s))
              ELSE after.cells[i] = Null

LeftTextualByNumericCoercion(result, c) ==
    result.typed.df.columns[c].dtype \notin {"int64", "float64"}

\* C20 as stated: a textual column is converted to numeric when at least 80%
\* of its non-null values parse as numbers, exactly 80% included, and is
\* left textual by numeric coercion otherwise.
C20_CoercesAtEightyPercentOfNonNull ==
    (fcall.fn = "clean" /\ fcall.result.outcome = "returned")
        => \A c \in TextualColumns(fcall.result) :
              LET cells == fcall.result.renamed.df.columns[c].cells
              IN  IF NotNaCount(cells) > 0
                     /\ 100 * ParsedCount(cells) >= 80 * NotNaCount(cells)
                  THEN ConvertedToNumeric(fcall.result, c)
                  ELSE LeftTextualByNumericCoercion(fcall.result, c)

(***************************************************************************)
(* Claims about the missing-value step of clean.                           *)
(***************************************************************************)
NumericDtypes == {"int64", "float64"}

\* the positions of the columns with nulls that the step fills
FillColumns(df) ==
    {c \in DOMAIN df.columns :
        /\ NaCount(df.columns[c].cells) > 0
        /\ df.columns[c].dtype \in NumericDtypes \cup {"object"}}

\* the positions of the columns with nulls of any other type
DropColumns(df) ==
    {c \in DOMAIN df.columns :
        /\ NaCount(df.columns[c].cells) > 0
        /\ df.columns[c].dtype \notin NumericDtypes \cup {"object"}}

\* the value the claim has a column filled with
ClaimedFill(col) ==
    IF col.dtype \in NumericDtypes THEN Median(col.cells)
    ELSE Text(FillValue(col.cells))

MissingValueIssues(self) ==
    {self.issues[i] : i \in {j \in DOMAIN self.issues : self.issues[j].type = "missing_values"}}

\* C21: in the missing-value step a numeric column with nulls is filled with
\* its median and a textual one with its mode or "Unknown"; no row is
\* removed by a fill and the filled column has no null left; rows are
\* dropped only for null-bearing columns of another type; each fill or drop
\* is recorded as a missing_values issue with the affected count.
C21_MissingValuesFilledOrDropped ==
    (fcall.fn = "clean" /\ fcall.result.outcome = "returned") =>
        LET before == fcall.result.typed.df
            after == fcall.result.filled.df
            issues == MissingValueIssues(fcall.result.filled.self)
        IN  /\ DropColumns(before) = {} => after.nrows = before.nrows
            /\ \A c \in FillColumns(before) :
                  NaCount(after.columns[c].cells) = 0
            /\ DropColumns(before) = {} =>
                  \A c \in FillColumns(before) :
                      /\ after.columns[c].cells
                            = FillNa(before.columns[c].cells, ClaimedFill(before.columns[c]))
                      /\ [type |-> "missing_values", column |-> before.columns[c].name,
                          count |-> NaCount(before.columns[c].cells)] \in issues
            /\ \A c \in DropColumns(before) :
                  DropColumns(before) = {c} =>
                      /\ after.nrows = before.nrows - NaCount(before.columns[c].cells)
                      /\ [type |-> "missing_values", column |-> before.columns[c].name,
                          count |-> before.nrows - after.nrows] \in issues
            /\ \A issue \in issues :
                  \E c \in FillColumns(before) \cup DropColumns(before) :
                      before.columns[c].name = issue.column

(***************************************************************************)
(* Claims about the report of clean and the shared instance.               *)
(***************************************************************************)
\* the report as its holder reads it: the issues, the summary, the steps,
\* the metrics and the renames are the objects the instance was bound to
\* during the call
ReportRead(metadata, objects) ==
    [metadata EXCEPT !.issues = objects.issues,
                     !.issue_summary = objects.issue_summary,
                     !.cleaning_steps = objects.cleaning_steps,
                     !.metrics = objects.metrics,
                     !.columns_renamed = objects.columns_renamed]

SecondCallMade == fcall.fn \in {"clean_again", "clean_other"}

\* C25: clean is a pure function of its input on the shared instance: a
\* later call returns the table and the report that a new instance returns
\* for the same table, the report of the earlier call still reads as it was
\* returned, and the tables passed in are unchanged.
C25_CleanIsPureOnSharedInstance ==
    /\ fcall.fn = "clean" =>
          /\ fcall.result = clean(fcall.arg)
          /\ fcall.input = fcall.arg
    /\ SecondCallMade =>
          /\ fcall.result2 = clean(fcall.arg2)
          /\ fcall.result2.outcome = "returned" =>
                ReportRead(fcall.result2.metadata, fcall.inst.objects[fcall.ref2])
                    = clean(fcall.arg2).metadata
          /\ fcall.result.outcome = "returned" =>
                ReportRead(fcall.result.metadata, fcall.inst.objects[fcall.ref])
                    = fcall.result.metadata
          /\ fcall.input = fcall.arg
          /\ fcall.input2 = fcall.arg2

\* a call that recorded an issue and a rename is followed by a call on a
\* table without any
C25_Witness ==
    /\ fcall.fn = "clean_other"
    /\ fcall.result.outcome = "returned"
    /\ fcall.result2.outcome = "returned"
    /\ fcall.result.metadata.issues # <<>>
    /\ DOMAIN fcall.result.metadata.columns_renamed # {}
    /\ fcall.result2.metadata.issues = <<>>
    /\ fcall.ref2 # fcall.ref

ReturnedReports ==
    (IF fcall.fn # "pending" /\ fcall.result.outcome = "returned"
     THEN {[table |-> fcall.arg, df |-> fcall.result.df,
            metadata |-> fcall.result.metadata]} ELSE {})
    \cup (IF SecondCallMade /\ fcall.result2.outcome = "returned"
          THEN {[table |-> fcall.arg2, df |-> fcall.result2.df,
                 metadata |-> fcall.result2.metadata]} ELSE {})

\* C28: the report of clean satisfies rows_removed = original_row_count -
\* cleaned_row_count = rows_dropped + duplicates_removed >= 0, the two row
\* counts being those of the input table and of the returned table.
C28_RowsRemovedAreCounted ==
    \A r \in ReturnedReports :
        /\ r.metadata.original_row_count = r.table.nrows
        /\ r.metadata.cleaned_row_count = r.df.nrows
        /\ r.metadata.rows_removed
              = r.metadata.original_row_count - r.metadata.cleaned_row_count
        /\ r.metadata.rows_removed
              = r.metadata.metrics.rows_dropped + r.metadata.metrics.duplicates_removed
        /\ r.metadata.rows_removed >= 0

\* one call drops a row for a missing date and removes a duplicate row
C28_Witness ==
    /\ fcall.fn = "clean"
    /\ fcall.result.outcome = "returned"
    /\ fcall.result.metadata.metrics.rows_dropped > 0
    /\ fcall.result.metadata.metrics.duplicates_removed > 0
    /\ fcall.result.metadata.rows_removed = 2

(***************************************************************************)
(* Claims about process_excel_file within upload_file.                     *)
(***************************************************************************)
HasFailingSheet(wb) == \E i \in DOMAIN wb : wb[i].raises

ProcessedForm(wb) ==
    [i \in DOMAIN wb |-> [base_table_name |-> wb[i].base_table_name,
                          nrows |-> wb[i].nrows]]

\* C22: when the processing of a sheet raises, process_excel_file returns an
\* error payload without any processed sheet and upload_file fails with it,
\* creating no table and persisting no record; the sheet loop of upload_file
\* runs only on a workbook whose sheets were all processed.
C22_FailedProcessingCreatesNothing ==
    /\ [](\A wb \in Workbooks :
            HasFailingSheet(wb) =>
                /\ process_excel_file(wb).status = "error"
                /\ process_excel_file(wb).processed_sheets = <<>>
                /\ ~ENABLED UploadStart(wb)
                /\ (pc = "idle" /\ uploadSeq < MaxUploads)
                        => ENABLED UploadProcessingFails(wb))
    /\ [](pc \in {"create", "insert", "persist"} =>
            \E wb \in Workbooks :
                ~HasFailingSheet(wb) /\ processed_sheets = ProcessedForm(wb))
    /\ [][(uploadSeq' # uploadSeq /\ response'.detail = "processing") =>
            /\ UNCHANGED <<tables, uploaded_files, file_sheets>>
            /\ response'.status = 500
            /\ pc' = "idle"
            /\ uploaded_file' = 0
            /\ sheet_models' = <<>>]_vars

\* the second sheet of a workbook raises while tables of an earlier upload
\* exist
C22_Witness ==
    /\ response.op = "upload"
    /\ response.detail = "processing"
    /\ response.error = "sheet 2"
    /\ uploaded_files # {}
    /\ DOMAIN tables # {}

\* C27: when the tables of all sheets were created and loaded and the
\* persisting of the records fails, the metadata transaction is rolled back
\* and a DROP TABLE IF EXISTS is executed for the table of every sheet of the
\* workbook, in sheet order, a failing drop not preventing the others:
\* every table whose drop did not fail is gone.
C27_FailedPersistDropsEveryTable ==
    (response.op = "upload" /\ response.detail = "metadata") =>
        /\ response.status = 500
        /\ {response.drops[i] : i \in DOMAIN response.drops} = response.tables
        /\ Len(response.drops) = Cardinality(response.tables)
        /\ \A i \in DOMAIN response.drops :
              \E base \in BaseTableNames :
                  response.drops[i] = unique_table_name(response.file_id, i - 1, base)
        /\ \A t \in response.tables \ response.drop_failed : t \notin DOMAIN tables
        /\ response.file_id \notin uploaded_files
        /\ \A sheet \in file_sheets : sheet.file_id # response.file_id

\* the drop of the first of two tables failed and the second table was
\* dropped
C27_Witness ==
    /\ response.op = "upload"
    /\ response.detail = "metadata"
    /\ Len(response.drops) = 2
    /\ response.drop_failed = {response.drops[1]}
    /\ response.drops[1] \in DOMAIN tables
    /\ response.drops[2] \notin DOMAIN tables

\* C24: an attempt of insert_dataframe_to_table that succeeds for n rows and
\* owner f, the first one or one after lock retries, appends exactly n rows
\* to the target table, with file_id = f and row_index 0..n-1 in row order,
\* and leaves the rest of storage as it was; an attempt that fails changes
\* no table.
C24_InsertAppendsTaggedRows ==
    [][pc = "insert" =>
        LET n == processed_sheets[index + 1].nrows
            f == uploaded_file
            target == CurrentTable
            before == Len(tables[target])
        IN  /\ (call'.fn = "insert" /\ call'.outcome = "returned") =>
                  /\ DOMAIN tables' = DOMAIN tables
                  /\ \A t \in DOMAIN tables \ {target} : tables'[t] = tables[t]
                  /\ Len(tables'[target]) = before + n
                  /\ SubSeq(tables'[target], 1, before) = tables[target]
                  /\ \A i \in 1..n :
                        /\ tables'[target][before + i].file_id = f
                        /\ tables'[target][before + i].row_index = i - 1
                        /\ tables'[target][before + i].data = <<uploadSeq, index, i - 1>>
            /\ (call'.fn = "insert" /\ call'.outcome # "returned") =>
                  tables' = tables]_vars

\* two rows were loaded on the third attempt, after two locked failures
C24_Witness ==
    /\ call.fn = "insert"
    /\ call.outcome = "returned"
    /\ call.resps = <<"locked", "locked", "ok">>
    /\ sheet_models # <<>>
    /\ LET loaded == tables[sheet_models[Len(sheet_models)].table_name]
       IN  /\ Len(loaded) = 2
           /\ loaded[1].row_index = 0
           /\ loaded[2].row_index = 1

(***************************************************************************)
(* Claims about the sheet names of process_excel_file.                     *)
(***************************************************************************)
\* C23: for a workbook with N sheets the result of process_excel_file lists
\* exactly N processed sheets under pairwise distinct names in encounter
\* order (total_sheets = N): the entry at position i was built from sheet i.
C23_SheetNamesResolved ==
    fcall.fn = "process_excel_file" =>
        LET N == Len(fcall.arg)
            listed == fcall.result.processed_sheets
        IN  /\ Len(listed) = N
            /\ fcall.result.total_sheets = N
            /\ Len(fcall.result.sheet_names) = N
            /\ \A i, j \in DOMAIN listed : i # j => listed[i].key # listed[j].key
            /\ \A i \in DOMAIN listed : listed[i].value = i - 1

(***************************************************************************)
(* Claims about the statement that execute_sql runs.                       *)
(***************************************************************************)
\* text with every placeholder "FROM data" / "from data" from position i on
\* replaced by "FROM <table>" / "from <table>", read from left to right
RECURSIVE PlaceholdersReplacedFrom(_, _, _)
PlaceholdersReplacedFrom(text, i, table) ==
    IF i > Len(text) THEN ""
    ELSE IF OccursAt(text, "FROM data", i)
    THEN "FROM " \o table \o PlaceholdersReplacedFrom(text, i + 9, table)
    ELSE IF OccursAt(text, "from data", i)
    THEN "from " \o table \o PlaceholdersReplacedFrom(text, i + 9, table)
    ELSE Char(text, i) \o PlaceholdersReplacedFrom(text, i + 1, table)

HasComment(sql) == \E k \in DOMAIN COMMENT_TOKENS : Occurs(sql, COMMENT_TOKENS[k])

\* C26: for a query that the gate accepts, execute_sql runs exactly one
\* statement: the sanitized text with the placeholders "FROM data" and
\* "from data" replaced by the table; for an input without LIMIT and without
\* comments this is the trimmed input, placeholders replaced, with
\* " LIMIT 200" appended ("SELECT * FROM data" on test_table runs
\* "SELECT * FROM test_table LIMIT 200").
C26_ExecutesSubstitutedSanitizedText ==
    (gate.fn = "execute_sql" /\ BeginsWithSelectWord(gate.sql)
        /\ ~HasForbiddenKeyword(gate.sql)) =>
        /\ executed = <<PlaceholdersReplacedFrom(_sanitize_sql(gate.sql).text, 1,
                                                 gate.table_name)>>
        /\ (~Occurs(Upper(gate.sql), "LIMIT") /\ ~HasComment(gate.sql)) =>
              executed = <<PlaceholdersReplacedFrom(RStripChar(Strip(gate.sql), ";"), 1,
                                                    gate.table_name)
                              \o " LIMIT 200">>
        /\ (gate.sql = "SELECT * FROM data" /\ gate.table_name = "test_table") =>
              executed = <<"SELECT * FROM test_table LIMIT 200">>

C26_Witness ==
    /\ gate.fn = "execute_sql"
    /\ gate.sql = "SELECT * FROM data"
    /\ gate.table_name = "test_table"
    /\ gate.outcome = "returned"
    /\ executed = <<"SELECT * FROM test_table LIMIT 200">>

(***************************************************************************)
(* Claims about the statement that creates a sheet's table.                *)
(***************************************************************************)
\* C29: the CREATE TABLE statement built for the schema of a sheet never
\* defines the same column name twice: no sanitized data column name equals
\* one of the bookkeeping columns id, file_id, row_index, created_at,
\* updated_at, whatever the original column headers are.
C29_CreateTableColumnsDistinct ==
    colcall.fn = "_build_column_mappings" =>
        LET defs == column_defs(colcall.mappings)
        IN  \A i, j \in DOMAIN defs : i # j => defs[i] # defs[j]

(***************************************************************************)
(* Claims about the generated table names behind the gate.                 *)
(***************************************************************************)
\* C30: every table materialized by upload_file is queryable through the
\* gate: for every physical table name T generated from a sheet name, the
\* read query SELECT * FROM T and the generator's fallback
\* SELECT * FROM T LIMIT 10; are accepted by _sanitize_sql.
C30_GeneratedTablesAreQueryable ==
    fcall.fn \in {"select_all", "fallback_query"} => fcall.result.ok
====
